---- MODULE Spec2Model ----
(***************************************************************************)
(* A model of the zai-proxy credential pool (internal/token_manager.go)    *)
(* and of its tool-emulation text layer (internal/tools.go).               *)
(*                                                                         *)
(* The pool part is a state machine: tokens.txt and tokens_invalid.txt on  *)
(* disk, the TokenManager's map, ring and cursor, the fsnotify watcher     *)
(* goroutine, the validator goroutine and the request handlers that call   *)
(* GetToken.  Every step is one critical section of tm.mu (or one file     *)
(* system call of the user who edits tokens.txt).                          *)
(***************************************************************************)
EXTENDS Integers, Sequences, FiniteSets, TLC

\* ------------------------------------------------------------------ bounds
\* The cursor value at which the model stops dispatching.
MaxIndex == 2
\* The number of validation passes the model runs.
MaxPasses == 1
\* The number of edits the user makes to tokens.txt while the process runs.
MaxEdits == 2

\* The symbols of the visible text of a response, at most.
MaxVisible == 3

\* The credentials of the model.  "a" is a JWT whose payload decodes to an
\* e-mail and a user id; "b" and "c" are opaque strings (DecodeJWTPayload
\* returns nil, nil for a string without a dot).
Tokens == {"a", "b", "c"}

\* ------------------------------------------------------------ small helpers
Range(s) == {s[i] : i \in 1..Len(s)}

Count(x, s) == Cardinality({i \in 1..Len(s) : s[i] = x})

\* The last k elements of s.
LastK(s, k) == SubSeq(s, Len(s) - k + 1, Len(s))

\* s without its i-th element.
RemoveAt(s, i) == SubSeq(s, 1, i - 1) \o SubSeq(s, i + 1, Len(s))

\* All the orders in which the elements of the set S can be listed.
Perms(S) == {p \in [1..Cardinality(S) -> S] : \A x \in S : \E i \in DOMAIN p : p[i] = x}

\* s with every element after its first occurrence dropped.
RECURSIVE Dedup(_)
Dedup(s) ==
    IF s = <<>> THEN <<>>
    ELSE LET r == Dedup(SubSeq(s, 1, Len(s) - 1))
             x == s[Len(s)]
         IN  IF x \in Range(r) THEN r ELSE Append(r, x)

\* ------------------------------------------------------- tokens.txt, lines
\* A line of tokens.txt after strings.TrimSpace: a prefix ("", "token=" or
\* "#") followed by a body.
Line(prefix, body) == [prefix |-> prefix, body |-> body]

Raw(t) == Line("", t)

KeyValue(t) == Line("token=", t)

Comment(c) == Line("#", c)

Blank == Line("", "")

\* The lines a user adds while the process runs: a raw credential, or a
\* credential in the token=<credential> form.
UserLines == {Raw("c"), KeyValue("a")}

\* The placeholder createExampleTokenFile writes.
ExampleFile ==
    << Comment("example"), Comment("example"), Comment("example"), Comment("example"),
       Comment("example"), Blank, Comment("example"), Comment("example") >>

\* The header removeInvalidTokens writes before the surviving credentials.
RewriteHeader == << Comment("auto"), Comment("auto"), Comment("auto"), Blank >>

\* tokens.txt does not exist.
Missing == << Line("missing", "") >>

\* The credential of one line, "" for a line loadTokens skips.
LineToken(line) ==
    IF (line.prefix = "" /\ line.body = "") \/ line.prefix = "#" THEN ""
    ELSE line.body

\* The credentials of the lines of a file, in file order (with repetitions).
FileTokens(f) ==
    IF f = Missing THEN <<>>
    ELSE LET toks == [i \in 1..Len(f) |-> LineToken(f[i])]
         IN  SelectSeq(toks, LAMBDA t : t # "")

\* ---------------------------------------------------------------- JWT
\* DecodeJWTPayload: the claims of a credential, ok = FALSE when it returns
\* a nil payload.
DecodeJWTPayload(t) ==
    IF t = "a" THEN [ok |-> TRUE, Email |-> "jwt", ID |-> "jwt"]
    ELSE [ok |-> FALSE, Email |-> "", ID |-> ""]

\* ---------------------------------------------------------------- state
VARIABLES
    file,          \* tokens.txt: a sequence of lines, or Missing
    invalidFile,   \* tokens_invalid.txt: one set of credentials per quarantine
    tokens,        \* tm.tokens: credential -> TokenInfo
    validTokens,   \* tm.validTokens: the ring
    currentIndex,  \* tm.currentIndex: the cursor
    started,       \* Start has run
    pending,       \* an fsnotify event for tokens.txt waits in watcher.Events
    wpc,           \* the watcher goroutine: "wait" or "sleep" (the 100 ms)
    vpc,           \* the validator: "idle", "probe", "rebuild", "remove"
    vTodo,         \* the credentials of the pass's snapshot not yet probed
    invalidCount,  \* validateAllTokens' invalidCount
    passes,        \* the passes started so far (the model's clock)
    ret,           \* what GetToken returned, NoCall unless it is the last step
    last,          \* the operation that completed last
    recent,        \* the credentials dispatched since the ring last changed
    probedDead,    \* the credentials that probed dead in the current pass
    probedAlive,   \* the credentials that probed alive in the current pass
    edits          \* the edits of tokens.txt the user made since Start

poolVars ==
    << file, invalidFile, tokens, validTokens, currentIndex, started, pending, wpc,
       vpc, vTodo, invalidCount, passes, ret, last, recent, probedDead, probedAlive,
       edits >>

VARIABLES
    visible,       \* the visible text of the response being handled
    wrapping,      \* the way the response carries its call
    response,      \* the response: a sequence of symbols
    toolCalls,     \* what ExtractToolInvocations returned
    cleaned,       \* what RemoveToolJSONContent returned
    extracted,     \* ExtractToolInvocations has returned
    stripped       \* RemoveToolJSONContent has returned

toolVars == << visible, wrapping, response, toolCalls, cleaned, extracted, stripped >>

VARIABLES
    reqMessages,   \* the messages of the request being translated
    reqTools,      \* the tools of the request
    reqToolChoice, \* the tool_choice of the request
    cfgToolSupport,\* Cfg.ToolSupport
    processed,     \* what ProcessMessagesWithTools returned
    translated     \* ProcessMessagesWithTools has returned

msgVars ==
    << reqMessages, reqTools, reqToolChoice, cfgToolSupport, processed, translated >>

VARIABLES
    modelMappings, \* the registry: key -> ModelMapping
    builtins,      \* the registry as initBuiltinMappings left it
    fetches,       \* the updateDynamicMappings calls so far
    fetched,       \* the ids of the models of the last updateDynamicMappings
    resolved,      \* the request and the result of the last GetModelMapping
    available,     \* the result of the last GetAvailableModels
    regLast        \* the registry operation that completed last

regVars == << modelMappings, builtins, fetches, fetched, resolved, available, regLast >>

VARIABLES
    countText,     \* the bytes of the text CountTokens is asked about
    countCut,      \* the text is s1 + s2, s1 its first countCut bytes
    counted        \* CountTokens of the text, of s1 and of s2, once counted

cntVars == << countText, countCut, counted >>

VARIABLES
    upAnswer,      \* the answer text the upstream sends, piece by piece
    upSent,        \* the symbols of it the upstream has sent
    upEvents,      \* the events the upstream has sent
    sawDelta,      \* the upstream has sent a delta that is not empty
    showThinking,  \* Cfg.ShowThinking
    phase,         \* StreamState: init, thinking, answering, tool_emitting, done
    emittedRole,   \* StreamState: the emitted-role flag
    answerBuffer,  \* StreamState: the accumulated answer
    thinkingBuffer,\* StreamState: the accumulated thinking
    sentContent,   \* the content emitted so far, chunk after chunk
    finishReason,  \* StreamState: the finish reason, "" until it is known
    emitted        \* the chunks emitted to the client, in order

streamVars ==
    << upAnswer, upSent, upEvents, sawDelta, showThinking, phase, emittedRole,
       answerBuffer, thinkingBuffer, sentContent, finishReason, emitted >>

VARIABLES
    mediaURL,      \* the URL of a single UploadMedia call, NoURL in a batch
    mediaKind,     \* the MediaType the caller of UploadMedia names
    imageURLs,     \* the image URLs of a batch
    videoURLs,     \* the video URLs of a batch
    posted,        \* the URLs whose payload was POSTed to the file endpoint
    uploadResult,  \* what UploadMedia or UploadMediaFiles returned
    upLast         \* the upload operation that completed: none, media, batch

uploadVars ==
    << mediaURL, mediaKind, imageURLs, videoURLs, posted, uploadResult, upLast >>

VARIABLES
    totalCalls,      \* tm.totalCalls
    successCalls,    \* tm.successCalls
    multimodalCount  \* tm.multimodalCount

statVars == << totalCalls, successCalls, multimodalCount >>

VARIABLES
    stopped,         \* tm.stopChan is closed
    feVersion,       \* the frontend version fetchFeVersion stored last
    versionFetches   \* the runs of fetchFeVersion so far

taskVars == << stopped, feVersion, versionFetches >>

VARIABLES
    callPc,          \* where the goroutine that calls RecordCall stands
    callArgs,        \* the arguments of the RecordCall in progress
    statPc,          \* where the goroutine that calls GetStats stands
    snapshot         \* the counters GetStats has loaded

snapVars == << callPc, callArgs, statPc, snapshot >>

VARIABLES
    clock,           \* time.Now(), in ticks
    requestTimes,    \* telemetry.requestTimes
    TotalRequests,   \* telemetry.TotalRequests
    reqPc,           \* where the goroutine that calls RecordRequest stands
    rpm,             \* what GetRPM returned last
    rpmLast          \* the last step of the telemetry: none, tick, count, append, get

rpmVars == << clock, requestTimes, TotalRequests, reqPc, rpm, rpmLast >>

VARIABLES
    heap,            \* the arrays and maps in memory, by address
    callerList,      \* the slice the caller passes to ProcessMessagesWithTools
    returnedList     \* the slice ProcessMessagesWithTools returns

heapVars == << heap, callerList, returnedList >>

vars == << poolVars, toolVars, msgVars, regVars, cntVars, streamVars, uploadVars, statVars, taskVars, snapVars, rpmVars, heapVars >>

\* What a step of the pool, of the tool layer, of the message translator and
\* of the registry leaves as it is.
notPool == << toolVars, msgVars, regVars, cntVars, streamVars, uploadVars, statVars, taskVars, snapVars, rpmVars, heapVars >>

notTools == << poolVars, msgVars, regVars, cntVars, streamVars, uploadVars, statVars, taskVars, snapVars, rpmVars, heapVars >>

notMessages == << poolVars, toolVars, regVars, cntVars, streamVars, uploadVars, statVars, taskVars, snapVars, rpmVars, heapVars >>

notRegistry == << poolVars, toolVars, msgVars, cntVars, streamVars, uploadVars, statVars, taskVars, snapVars, rpmVars, heapVars >>

notCounter == << poolVars, toolVars, msgVars, regVars, streamVars, uploadVars, statVars, taskVars, snapVars, rpmVars, heapVars >>

notStream == << poolVars, toolVars, msgVars, regVars, cntVars, uploadVars, statVars, taskVars, snapVars, rpmVars, heapVars >>

notUpload == << poolVars, toolVars, msgVars, regVars, cntVars, streamVars, statVars, taskVars, snapVars, rpmVars, heapVars >>

notStats == << poolVars, toolVars, msgVars, regVars, cntVars, streamVars, uploadVars, taskVars, snapVars, rpmVars, heapVars >>

notTasks == << poolVars, toolVars, msgVars, regVars, cntVars, streamVars, uploadVars, statVars, snapVars, rpmVars, heapVars >>

notSnap == << poolVars, toolVars, msgVars, regVars, cntVars, streamVars, uploadVars, statVars, taskVars, rpmVars, heapVars >>

notRpm == << poolVars, toolVars, msgVars, regVars, cntVars, streamVars, uploadVars, statVars, taskVars, snapVars, heapVars >>

\* The value of ret when the last step was not a GetToken call.
NoCall == "n/a"

\* ------------------------------------------------------------ TokenInfo
TokenInfo(email, id, valid, checked, uses) ==
    [Email |-> email, UserID |-> id, Valid |-> valid, LastChecked |-> checked,
     UseCount |-> uses]

\* The record loadTokens makes for a credential it has not seen.
NewTokenInfo(t) ==
    LET payload == DecodeJWTPayload(t)
    IN  IF payload.ok THEN TokenInfo(payload.Email, payload.ID, TRUE, 0, 0)
        ELSE TokenInfo("", "", TRUE, 0, 0)

\* m with key k set to v.
MapPut(m, k, v) == [x \in DOMAIN m \cup {k} |-> IF x = k THEN v ELSE m[x]]

\* m without the keys in ks.
MapDrop(m, ks) == [x \in DOMAIN m \ ks |-> m[x]]

EmptyMap == [x \in {} |-> TokenInfo("", "", TRUE, 0, 0)]

\* ------------------------------------------------------------ loadTokens
\* Whether loadTokens puts a credential it found in the old map on the ring.
KeepOnRing_Always(oldInfo) == TRUE

KeepOnRing(oldInfo) == oldInfo.Valid

\* The record loadTokens stores for a credential it found in the old map.
ReusedInfo_Reset(oldInfo) == [oldInfo EXCEPT !.UseCount = 0]

ReusedInfo(oldInfo) == oldInfo

\* The fsnotify watcher delivers the events of tokens.txt: Start has added
\* the directory and Stop has not closed the watcher.
Watching == started /\ ~stopped

\* The scanner loop of loadTokens over the remaining lines.
RECURSIVE ScanLines(_, _, _, _)
ScanLines(lines, oldTokens, newTokens, ring) ==
    IF lines = <<>> THEN [tokens |-> newTokens, validTokens |-> ring]
    ELSE LET token == LineToken(Head(lines))
         IN  IF token = "" THEN ScanLines(Tail(lines), oldTokens, newTokens, ring)
             ELSE IF token \in DOMAIN oldTokens
             THEN ScanLines(Tail(lines), oldTokens,
                            MapPut(newTokens, token, ReusedInfo(oldTokens[token])),
                            IF KeepOnRing(oldTokens[token]) THEN Append(ring, token) ELSE ring)
             ELSE ScanLines(Tail(lines), oldTokens,
                            MapPut(newTokens, token, NewTokenInfo(token)),
                            Append(ring, token))

\* loadTokens as a step: a missing tokens.txt is replaced by the placeholder
\* and the pool is left as it is; otherwise the map and the ring are rebuilt
\* from the lines.  tokens.txt is read under tm.mu.
loadTokens ==
    IF file = Missing
    THEN /\ file' = ExampleFile
         /\ pending' = (Watching \/ pending)
         /\ UNCHANGED << tokens, validTokens, recent >>
    ELSE LET r == ScanLines(file, tokens, EmptyMap, <<>>)
         IN  /\ tokens' = r.tokens
             /\ validTokens' = r.validTokens
             /\ recent' = IF r.validTokens = validTokens THEN recent ELSE <<>>
             /\ UNCHANGED << file, pending >>

\* ------------------------------------------------------------------ Init
\* The tokens.txt the process finds when it starts: none, one whose lines
\* hold no credential, one with three credentials, one that lists a
\* credential twice (raw and as token=<credential>).
InitialFiles ==
    { Missing,
      << Comment("note"), KeyValue("") >>,
      << Raw("a"), Raw("b"), Raw("c") >>,
      << Raw("a"), KeyValue("a"), Raw("b") >> }

\* The TokenManager as GetTokenManager constructs it.
PoolInit ==
    /\ file \in InitialFiles
    /\ edits = 0
    /\ invalidFile = <<>>
    /\ tokens = EmptyMap
    /\ validTokens = <<>>
    /\ currentIndex = 0
    /\ started = FALSE
    /\ pending = FALSE
    /\ wpc = "wait"
    /\ vpc = "idle"
    /\ vTodo = {}
    /\ invalidCount = 0
    /\ passes = 0
    /\ ret = NoCall
    /\ last = "other"
    /\ recent = <<>>
    /\ probedDead = {}
    /\ probedAlive = {}

\* ------------------------------------------------------------ the user
\* The user appends a line to tokens.txt (creating the file if need be).
UserAppend(l) ==
    /\ UNCHANGED notPool
    /\ started
    /\ edits < MaxEdits
    /\ edits' = edits + 1
    /\ file' = IF file = Missing THEN << l >> ELSE Append(file, l)
    /\ pending' = (Watching \/ pending)
    /\ last' = "other"
    /\ ret' = NoCall
    /\ UNCHANGED << invalidFile, tokens, validTokens, currentIndex, started, wpc, vpc,
                    vTodo, invalidCount, passes, recent, probedDead, probedAlive >>

\* The user deletes the i-th line of tokens.txt, a line that holds a credential.
UserRemove(i) ==
    /\ UNCHANGED notPool
    /\ started
    /\ edits < MaxEdits
    /\ edits' = edits + 1
    /\ file # Missing
    /\ i \in 1..Len(file)
    /\ LineToken(file[i]) # ""
    /\ file' = RemoveAt(file, i)
    /\ pending' = (Watching \/ pending)
    /\ last' = "other"
    /\ ret' = NoCall
    /\ UNCHANGED << invalidFile, tokens, validTokens, currentIndex, started, wpc, vpc,
                    vTodo, invalidCount, passes, recent, probedDead, probedAlive >>

\* ------------------------------------------------------------ Start
\* Start: the initial loadTokens, then the watcher and the validator run.
Start ==
    /\ UNCHANGED notPool
    /\ ~started
    /\ loadTokens
    /\ started' = TRUE
    /\ last' = "load"
    /\ ret' = NoCall
    /\ UNCHANGED << invalidFile, currentIndex, wpc, vpc, vTodo, invalidCount, passes,
                    probedDead, probedAlive, edits >>

\* ------------------------------------------------------------ the watcher
\* The watcher goroutine receives a Write or Create event for tokens.txt and
\* starts its 100 ms sleep.
WatcherEvent ==
    /\ UNCHANGED notPool
    /\ started
    /\ pending
    /\ wpc = "wait"
    /\ pending' = FALSE
    /\ wpc' = "sleep"
    /\ last' = "other"
    /\ ret' = NoCall
    /\ UNCHANGED << file, invalidFile, tokens, validTokens, currentIndex, started, vpc,
                    vTodo, invalidCount, passes, recent, probedDead, probedAlive, edits >>

\* The sleep is over: the watcher goroutine calls loadTokens.
WatcherReload ==
    /\ UNCHANGED notPool
    /\ wpc = "sleep"
    /\ loadTokens
    /\ wpc' = "wait"
    /\ last' = "load"
    /\ ret' = NoCall
    /\ UNCHANGED << invalidFile, currentIndex, started, vpc, vTodo, invalidCount, passes,
                    probedDead, probedAlive, edits >>

\* ------------------------------------------------------------ the validator
\* validateAllTokens starts: the keys of the map are copied under RLock.
StartPass ==
    /\ UNCHANGED notPool
    /\ started
    /\ vpc = "idle"
    /\ passes < MaxPasses
    /\ passes' = passes + 1
    /\ vTodo' = DOMAIN tokens
    /\ invalidCount' = 0
    /\ probedDead' = {}
    /\ probedAlive' = {}
    /\ vpc' = IF DOMAIN tokens = {} THEN "rebuild" ELSE "probe"
    /\ last' = "other"
    /\ ret' = NoCall
    /\ UNCHANGED << file, invalidFile, tokens, validTokens, currentIndex, started, pending,
                    wpc, recent, edits >>

\* validateToken(t) on the map m: the probe of the upstream answered 200
\* (alive) or not; a 200 whose body carries a token carries the claims too,
\* which overwrite those of the record.
validateToken(m, t, alive, claims) ==
    IF alive /\ claims /\ t \in DOMAIN m
    THEN [m EXCEPT ![t].Email = "auth", ![t].UserID = "auth"]
    ELSE m

\* The verdict the loop of validateAllTokens writes into the record of t, if
\* the record is still there.
MarkToken_Insert(m, t, valid, now) ==
    MapPut(m, t, [(IF t \in DOMAIN m THEN m[t] ELSE NewTokenInfo(t))
                     EXCEPT !.Valid = valid, !.LastChecked = now])

MarkToken_Alive(m, t, valid, now) ==
    IF t \in DOMAIN m
    THEN [m EXCEPT ![t].Valid = TRUE, ![t].LastChecked = now]
    ELSE m

MarkToken(m, t, valid, now) ==
    IF t \in DOMAIN m
    THEN [m EXCEPT ![t].Valid = valid, ![t].LastChecked = now]
    ELSE m

\* One round of the loop of validateAllTokens: validateToken(t), then the
\* verdict goes into the record.  The probe touches no state of the pool, so
\* the round is one step.
ValidateOne(t, alive, claims) ==
    /\ UNCHANGED notPool
    /\ vpc = "probe"
    /\ t \in vTodo
    /\ tokens' = MarkToken(validateToken(tokens, t, alive, claims), t, alive, passes)
    /\ invalidCount' = IF t \in DOMAIN tokens /\ ~alive THEN invalidCount + 1
                       ELSE invalidCount
    /\ vTodo' = vTodo \ {t}
    /\ probedDead' = IF alive THEN probedDead ELSE probedDead \cup {t}
    /\ probedAlive' = IF alive THEN probedAlive \cup {t} ELSE probedAlive
    /\ vpc' = IF vTodo = {t} THEN "rebuild" ELSE "probe"
    /\ last' = "other"
    /\ ret' = NoCall
    /\ UNCHANGED << file, invalidFile, validTokens, currentIndex, started, pending, wpc,
                    passes, recent, edits >>

\* The rings rebuildValidTokens can build: the valid keys of the map in the
\* order the range over the map yields them, which Go leaves unspecified.
RebuiltRings(m) == Perms({t \in DOMAIN m : m[t].Valid})

rebuildValidTokens ==
    /\ UNCHANGED notPool
    /\ vpc = "rebuild"
    /\ \E ring \in RebuiltRings(tokens) :
          /\ validTokens' = ring
          /\ recent' = IF ring = validTokens THEN recent ELSE <<>>
    /\ vpc' = IF invalidCount > 0 THEN "remove" ELSE "idle"
    /\ last' = "rebuild"
    /\ ret' = NoCall
    /\ UNCHANGED << file, invalidFile, tokens, currentIndex, started, pending, wpc, vTodo,
                    invalidCount, passes, probedDead, probedAlive, edits >>

\* The keys removeInvalidTokens collects and deletes.
InvalidKeys_Valid(m) == {t \in DOMAIN m : m[t].Valid}

InvalidKeys(m) == {t \in DOMAIN m : ~m[t].Valid}

\* The content removeInvalidTokens writes to tokens.txt.
RewrittenFile(ring) == RewriteHeader \o [i \in 1..Len(ring) |-> Raw(ring[i])]

removeInvalidTokens ==
    /\ UNCHANGED notPool
    /\ vpc = "remove"
    /\ tokens' = MapDrop(tokens, InvalidKeys(tokens))
    /\ IF InvalidKeys(tokens) = {}
       THEN UNCHANGED << file, invalidFile, pending >>
       ELSE /\ invalidFile' = Append(invalidFile, InvalidKeys(tokens))
            /\ file' = RewrittenFile(validTokens)
            /\ pending' = (Watching \/ pending)
    /\ vpc' = "idle"
    /\ last' = "remove"
    /\ ret' = NoCall
    /\ UNCHANGED << validTokens, currentIndex, started, wpc, vTodo, invalidCount, passes,
                    recent, probedDead, probedAlive, edits >>

\* ------------------------------------------------------------ GetToken
\* The ring entry GetToken returns.
RingEntry_First(ring, index) == ring[1]

RingEntry(ring, index) == ring[(index % Len(ring)) + 1]

\* The cursor after a GetToken call.
CursorAfter_Always(ring, index) == index + 1

CursorAfter(ring, index) == IF Len(ring) = 0 THEN index ELSE index + 1

GetToken ==
    /\ UNCHANGED notPool
    /\ started
    /\ currentIndex < MaxIndex
    /\ IF Len(validTokens) = 0
       THEN /\ ret' = ""
            /\ UNCHANGED << tokens, recent >>
       ELSE LET token == RingEntry(validTokens, currentIndex)
            IN  /\ ret' = token
                /\ tokens' = IF token \in DOMAIN tokens
                             THEN [tokens EXCEPT ![token].UseCount = @ + 1]
                             ELSE tokens
                /\ recent' = Append(recent, token)
    /\ currentIndex' = CursorAfter(validTokens, currentIndex)
    /\ last' = "get"
    /\ UNCHANGED << file, invalidFile, validTokens, started, pending, wpc, vpc, vTodo,
                    invalidCount, passes, probedDead, probedAlive, edits >>

\* ------------------------------------------------------------ texts
\* A text is a sequence of symbols.  A symbol stands for a run of bytes: one
\* byte for the characters the scanners and the JSON decoder treat specially,
\* a whole word otherwise.
Q == "\""

BS == "\\"

WS == {" ", "\n"}

\* The symbol for three backticks.
Fence == "<fence>"

\* The digits of a JSON number.
Digits == {"1"}

\* The words that are JSON literals.
Literals == {"null", "true", "false"}

\* The symbols of word characters (the class \w of the patterns).
WordSymbols ==
    {"1", "a", "f", "x", "hi", "id", "data", "note", "type", "name", "json", "null",
     "true", "false", "function", "arguments", "tool_calls"}

\* The words whose first byte, after a backslash, is a JSON escape.
EscapeWords == {"f", "function", "name", "note", "null", "true", "type", "tool_calls"}

\* The marker that, in a decoded string, stands for a control character.
Ctl == "<ctl>"

\* The symbols for the words of the natural-language pattern that say "call
\* the function" and "parameters".
CallFunction == "<call function>"

Parameters == "<parameters>"

\* The symbols in the order of their first bytes.
ByteOrder ==
    << Ctl, "\n", " ", Q, ",", "1", ":", "[", BS, "]", Fence, "a", "arguments",
       "data", "f", "false", "function", "hi", "id", "json", "name", "note", "null",
       "tool_calls", "true", "type", "x", "{", "}", CallFunction, Parameters >>

Rank(sym) == CHOOSE i \in 1..Len(ByteOrder) : ByteOrder[i] = sym

\* Whether the string k1 sorts before the string k2.
RECURSIVE KeyLess(_, _)
KeyLess(k1, k2) ==
    IF k2 = <<>> THEN FALSE
    ELSE IF k1 = <<>> THEN TRUE
    ELSE IF k1[1] = k2[1] THEN KeyLess(Tail(k1), Tail(k2))
    ELSE Rank(k1[1]) < Rank(k2[1])

\* The index of the first symbol at or after i that is not white space.
RECURSIVE SkipWS(_, _)
SkipWS(s, i) == IF i <= Len(s) /\ s[i] \in WS THEN SkipWS(s, i + 1) ELSE i

\* The index of the last symbol at or before i that is not white space.
RECURSIVE SkipWSBack(_, _)
SkipWSBack(s, i) == IF i >= 1 /\ s[i] \in WS THEN SkipWSBack(s, i - 1) ELSE i

\* strings.TrimSpace
TrimSpace(s) == SubSeq(s, SkipWS(s, 1), SkipWSBack(s, Len(s)))

\* The concatenation of the sequences of ss.
RECURSIVE Concat(_)
Concat(ss) == IF ss = <<>> THEN <<>> ELSE ss[1] \o Concat(Tail(ss))

\* The concatenation of the sequences of ss with sep between them.
RECURSIVE Join(_, _)
Join(ss, sep) ==
    IF ss = <<>> THEN <<>>
    ELSE IF Len(ss) = 1 THEN ss[1]
    ELSE ss[1] \o sep \o Join(Tail(ss), sep)

\* The least number of the set S.
Least(S) == CHOOSE x \in S : \A y \in S : x <= y

\* The state a loop reaches that runs Body for the indices lo..hi in
\* ascending order, starting in state.
\* The state after the first half is computed before the second half runs.
RECURSIVE FoldRange(_, _, _, _)
FoldRange(Body(_, _), state, lo, hi) ==
    IF lo > hi THEN state
    ELSE IF lo = hi THEN Body(state, lo)
    ELSE LET mid == (lo + hi) \div 2
             half == FoldRange(Body, state, lo, mid)
         IN  IF half = half THEN FoldRange(Body, half, mid + 1, hi) ELSE state

\* ------------------------------------------------------------ encoding/json
\* A decoded JSON value: its kind, the symbols of a string or number, the
\* members of an object (key and value) or the items of an array (value).
JVal(kind, atom, kids) == [kind |-> kind, atom |-> atom, kids |-> kids]

JNull == JVal("null", << "null" >>, <<>>)

JMember(key, val) == [key |-> key, val |-> val]

\* The decoder reads the text symbol by symbol.  Its state: no error so far,
\* what it expects (mode), the objects and arrays it is in (stack, innermost
\* last, each with the members read and the key that awaits its value), the
\* string or number it is reading (str), whether that string is a key,
\* whether a backslash came just before, and the value of the whole text.
DecoderStart ==
    [ok |-> TRUE, mode |-> "value", stack |-> <<>>, str |-> <<>>, isKey |-> FALSE,
     esc |-> FALSE, val |-> JNull]

Frame(kind) == [kind |-> kind, kids |-> <<>>, key |-> <<>>]

Top(st) == st.stack[Len(st.stack)]

Pop(st) == [st EXCEPT !.stack = SubSeq(st.stack, 1, Len(st.stack) - 1)]

Push(st, kind, mode) == [st EXCEPT !.stack = Append(st.stack, Frame(kind)), !.mode = mode]

Bad(st) == [st EXCEPT !.ok = FALSE]

\* The decoder has read the whole of the value v.
Complete(st, v) ==
    IF st.stack = <<>> THEN [st EXCEPT !.mode = "end", !.val = v]
    ELSE [st EXCEPT !.mode = "next",
                    !.stack[Len(st.stack)].kids = Append(@, JMember(Top(st).key, v)),
                    !.stack[Len(st.stack)].key = <<>>]

\* The decoder, inside a string, reads the symbol c.
StringStep(st, c) ==
    IF st.esc
    THEN IF c \in {Q, BS} THEN [st EXCEPT !.str = Append(@, c), !.esc = FALSE]
         ELSE IF c \in EscapeWords
              THEN [st EXCEPT !.str = @ \o << Ctl, c >>, !.esc = FALSE]
              ELSE Bad(st)
    ELSE IF c = BS THEN [st EXCEPT !.esc = TRUE]
    ELSE IF c = "\n" THEN Bad(st)
    ELSE IF c = Q
         THEN IF st.isKey
              THEN [st EXCEPT !.mode = "colon", !.stack[Len(st.stack)].key = st.str]
              ELSE Complete(st, JVal("string", st.str, <<>>))
    ELSE [st EXCEPT !.str = Append(@, c)]

\* The decoder reads the symbol s[j].
DecoderStep(s, st, j) ==
    LET c == s[j]
        wordNext == j < Len(s) /\ s[j + 1] \in WordSymbols
        digits == Append(IF st.mode = "number" THEN st.str ELSE <<>>, c)
    IN  IF ~st.ok THEN st
        ELSE IF st.mode = "string" THEN StringStep(st, c)
        ELSE IF c \in WS THEN st
        ELSE CASE st.mode \in {"value", "first"} /\ c = Q ->
                    [st EXCEPT !.mode = "string", !.str = <<>>, !.isKey = FALSE]
               [] st.mode \in {"member", "key"} /\ c = Q ->
                    [st EXCEPT !.mode = "string", !.str = <<>>, !.isKey = TRUE]
               [] st.mode \in {"value", "first"} /\ c = "{" -> Push(st, "object", "member")
               [] st.mode \in {"value", "first"} /\ c = "[" -> Push(st, "array", "first")
               [] st.mode \in {"value", "first", "number"} /\ c \in Digits ->
                    IF j < Len(s) /\ s[j + 1] \in Digits
                    THEN [st EXCEPT !.mode = "number", !.str = digits]
                    ELSE IF wordNext THEN Bad(st)
                    ELSE Complete(st, JVal("number", digits, <<>>))
               [] st.mode \in {"value", "first"} /\ c \in Literals ->
                    IF wordNext THEN Bad(st)
                    ELSE Complete(st, JVal(IF c = "null" THEN "null" ELSE "bool",
                                           << c >>, <<>>))
               [] st.mode = "colon" /\ c = ":" -> [st EXCEPT !.mode = "value"]
               [] st.mode = "next" /\ c = "," ->
                    [st EXCEPT !.mode = IF Top(st).kind = "object" THEN "key" ELSE "value"]
               [] st.mode \in {"next", "member"} /\ c = "}" /\ Top(st).kind = "object" ->
                    Complete(Pop(st), JVal("object", <<>>, Top(st).kids))
               [] st.mode \in {"next", "first"} /\ c = "]" /\ Top(st).kind = "array" ->
                    Complete(Pop(st), JVal("array", <<>>, Top(st).kids))
               [] OTHER -> Bad(st)

\* json.Unmarshal into an interface{}: one JSON value and white space only.
Unmarshal(s) ==
    LET Read(st, j) == DecoderStep(s, st, j)
        st == FoldRange(Read, DecoderStart, 1, Len(s))
    IN  IF st.ok /\ st.mode = "end" THEN [ok |-> TRUE, val |-> st.val]
        ELSE [ok |-> FALSE, val |-> JNull]

\* The members of the object v with the key key, in their order.
Members(v, key) == SelectSeq(v.kids, LAMBDA m : m.key = key)

HasKey(v, key) == v.kind = "object" /\ Members(v, key) # <<>>

\* The value a Go map holds for key: the last of the members.
Field(v, key) == LET ms == Members(v, key) IN ms[Len(ms)].val

\* Whether every member of v with the key key decodes into a Go string.
StringFieldOK(v, key) ==
    \A i \in 1..Len(Members(v, key)) : Members(v, key)[i].val.kind \in {"string", "null"}

\* The Go string the members of v with the key key decode into.
StringField(v, key) ==
    LET strs == SelectSeq(Members(v, key), LAMBDA m : m.val.kind = "string")
    IN  IF strs = <<>> THEN <<>> ELSE strs[Len(strs)].val.atom

\* The JSON text of a Go string.
RECURSIVE Escape(_)
Escape(atom) ==
    IF atom = <<>> THEN <<>>
    ELSE IF atom[1] \in {Q, BS} THEN << BS, atom[1] >> \o Escape(Tail(atom))
    ELSE IF atom[1] = Ctl THEN << BS >> \o Escape(Tail(atom))
    ELSE << atom[1] >> \o Escape(Tail(atom))

\* The keys of the object v, each once, in sorted order.
SortedKeys(v) == SortSeq(Dedup([i \in 1..Len(v.kids) |-> v.kids[i].key]), KeyLess)

\* json.Marshal of a decoded value.
RECURSIVE Marshal(_)
Marshal(v) ==
    CASE v.kind = "string" -> << Q >> \o Escape(v.atom) \o << Q >>
      [] v.kind = "object" ->
            LET keys == SortedKeys(v)
            IN  << "{" >>
                \o Join([i \in 1..Len(keys) |->
                            << Q >> \o Escape(keys[i]) \o << Q, ":" >>
                            \o Marshal(Field(v, keys[i]))], << "," >>)
                \o << "}" >>
      [] v.kind = "array" ->
            << "[" >>
            \o Join([i \in 1..Len(v.kids) |-> Marshal(v.kids[i].val)], << "," >>)
            \o << "]" >>
      [] OTHER -> v.atom

\* ------------------------------------------------------------ tool calls
\* The scan limit of the configuration, in symbols.
ScanLimit == 80

\* A ToolCall: its id, type, function name and arguments, each a string.
ToolCall(id, type, name, arguments) ==
    [ID |-> id, Type |-> type, Name |-> name, Arguments |-> arguments]

\* generateCallID at the time now.
generateCallID(now) == << "call_", now >>

NoMatch == [ok |-> FALSE, open |-> 0, close |-> 0, end |-> 0]

\* toolCallFencePattern matched at i: the indices of the brace that opens
\* and of the brace that closes the captured group, and the index after the
\* match.
FenceAt(s, i) ==
    IF i + 1 <= Len(s) /\ s[i] = Fence /\ s[i + 1] = "json"
    THEN LET o == SkipWS(s, i + 2)
         IN  IF o <= Len(s) /\ s[o] = "{"
             THEN LET closes == {c \in (o + 1)..Len(s) :
                                    /\ s[c] = "}"
                                    /\ SkipWS(s, c + 1) <= Len(s)
                                    /\ s[SkipWS(s, c + 1)] = Fence}
                  IN  IF closes = {} THEN NoMatch
                      ELSE LET c == CHOOSE x \in closes : \A y \in closes : x <= y
                           IN  [ok |-> TRUE, open |-> o, close |-> c,
                                end |-> SkipWS(s, c + 1) + 1]
             ELSE NoMatch
    ELSE NoMatch

\* The index after the run of word symbols that starts at i.
RECURSIVE WordsEnd(_, _)
WordsEnd(s, i) == IF i <= Len(s) /\ s[i] \in WordSymbols THEN WordsEnd(s, i + 1) ELSE i

\* The value an "arguments" member decodes into (parseToolCallsJSON).
ArgumentsOf_StringOnly(fn) ==
    IF HasKey(fn, << "arguments" >>) /\ Field(fn, << "arguments" >>).kind = "string"
    THEN Field(fn, << "arguments" >>).atom
    ELSE <<>>

ArgumentsOf(fn) ==
    IF HasKey(fn, << "arguments" >>)
    THEN LET args == Field(fn, << "arguments" >>)
         IN  CASE args.kind = "string" -> args.atom
               [] args.kind = "object" -> Marshal(args)
               [] OTHER -> <<>>
    ELSE <<>>

\* The ToolCall parseToolCallsJSON makes of the element tc of tool_calls.
CallOf(tc) ==
    LET id == StringField(tc, << "id" >>)
        type == StringField(tc, << "type" >>)
        fn == IF HasKey(tc, << "function" >>) THEN Field(tc, << "function" >>) ELSE JNull
        name == IF HasKey(fn, << "name" >>) /\ Field(fn, << "name" >>).kind = "string"
                THEN Field(fn, << "name" >>).atom ELSE <<>>
    IN  ToolCall(id, IF type = <<>> THEN << "function" >> ELSE type, name, ArgumentsOf(fn))

\* Whether the element tc of tool_calls decodes into the struct.
ElementOK(tc) ==
    /\ tc.kind \in {"object", "null"}
    /\ StringFieldOK(tc, << "id" >>)
    /\ StringFieldOK(tc, << "type" >>)

\* parseToolCallsJSON: the calls of the JSON text, <<>> for nil.
parseToolCallsJSON(jsonStr) ==
    LET r == Unmarshal(jsonStr)
    IN  IF ~r.ok \/ r.val.kind \notin {"object", "null"} THEN <<>>
        ELSE IF ~HasKey(r.val, << "tool_calls" >>) THEN <<>>
        ELSE LET list == Field(r.val, << "tool_calls" >>)
             IN  IF list.kind # "array" THEN <<>>
                 ELSE IF \E i \in 1..Len(list.kids) : ~ElementOK(list.kids[i].val) THEN <<>>
                 ELSE [i \in 1..Len(list.kids) |-> CallOf(list.kids[i].val)]

BraceStep_NoStrings(s, st, j) ==
    IF st.braceCount = 0 THEN st
    ELSE IF s[j] = "{" THEN [st EXCEPT !.braceCount = st.braceCount + 1, !.j = j + 1]
    ELSE IF s[j] = "}" THEN [st EXCEPT !.braceCount = st.braceCount - 1, !.j = j + 1]
    ELSE [st EXCEPT !.j = j + 1]

\* One round of the loop that looks for the matching brace, reading s[j];
\* st.j is the index after the last symbol read.
BraceStep(s, st, j) ==
    IF st.braceCount = 0 THEN st
    ELSE IF st.escapeNext THEN [st EXCEPT !.escapeNext = FALSE, !.j = j + 1]
    ELSE IF s[j] = BS THEN [st EXCEPT !.escapeNext = TRUE, !.j = j + 1]
    ELSE IF s[j] = Q THEN [st EXCEPT !.inString = ~st.inString, !.j = j + 1]
    ELSE IF s[j] = "{" /\ ~st.inString
         THEN [st EXCEPT !.braceCount = st.braceCount + 1, !.j = j + 1]
    ELSE IF s[j] = "}" /\ ~st.inString
         THEN [st EXCEPT !.braceCount = st.braceCount - 1, !.j = j + 1]
    ELSE [st EXCEPT !.j = j + 1]

\* The loop that looks for the brace matching the one at i: the index after
\* the last symbol it read and the count of braces left open.
MatchBrace(s, i) ==
    LET Step(st, j) == BraceStep(s, st, j)
    IN  FoldRange(Step,
                  [j |-> i + 1, braceCount |-> 1, inString |-> FALSE,
                   escapeNext |-> FALSE],
                  i + 1, Len(s))

\* The calls of the balanced object that starts at i, <<>> if there is none.
InlineCallsAt(text, i) ==
    IF text[i] # "{" THEN <<>>
    ELSE LET m == MatchBrace(text, i)
         IN  IF m.braceCount = 0 THEN parseToolCallsJSON(SubSeq(text, i, m.j - 1))
             ELSE <<>>

\* extractInlineToolCalls: the calls of the first object that has calls.
extractInlineToolCalls(text) ==
    LET Step(calls, i) == IF calls # <<>> THEN calls ELSE InlineCallsAt(text, i)
    IN  FoldRange(Step, <<>>, 1, Len(text))

\* FindAllStringSubmatch of toolCallFencePattern: the matches, left to right,
\* none overlapping an earlier one.
FenceMatches(text) ==
    LET Step(st, pos) ==
            IF pos < st.next \/ text[pos] # Fence THEN st
            ELSE LET r == FenceAt(text, pos)
                 IN  IF ~r.ok THEN st
                     ELSE [next |-> r.end,
                           found |-> Append(st.found,
                                            [start |-> pos, open |-> r.open,
                                             close |-> r.close, end |-> r.end])]
    IN  FoldRange(Step, [next |-> 1, found |-> <<>>], 1, Len(text)).found

\* The calls of the first fence whose group holds calls.
extractFenced(text) ==
    LET ms == FenceMatches(text)
        CallsOf(k) == parseToolCallsJSON(SubSeq(text, ms[k].open, ms[k].close))
        Step(calls, k) == IF calls # <<>> THEN calls ELSE CallsOf(k)
    IN  FoldRange(Step, <<>>, 1, Len(ms))

\* The index of the first symbol at or after i that is sym, Len(s) + 1 if none.
IndexOf(s, i, sym) ==
    LET at == {j \in i..Len(s) : s[j] = sym}
    IN  IF at = {} THEN Len(s) + 1 ELSE Least(at)

\* Whether the symbols of word are at i in s, and the index after them.
At(s, i, word) == i + Len(word) - 1 <= Len(s) /\ SubSeq(s, i, i + Len(word) - 1) = word

NoSingle == [ok |-> FALSE, name |-> <<>>, args |-> <<>>]

\* singleFunctionPattern matched at i: the two captured groups.
SingleAt(s, i) ==
    LET p1 == SkipWS(s, i + 1)
        p2 == SkipWS(s, p1 + 3)
        p3 == SkipWS(s, p2 + 1)
        p4 == IndexOf(s, p3 + 1, Q)
        p5 == SkipWS(s, p4 + 1)
        p6 == SkipWS(s, p5 + 1)
        p7 == SkipWS(s, p6 + 3)
        p8 == SkipWS(s, p7 + 1)
        c  == IF p8 <= Len(s) /\ s[p8] = "{" THEN IndexOf(s, p8 + 1, "}")
              ELSE IF p8 <= Len(s) /\ s[p8] = Q THEN IndexOf(s, p8 + 1, Q)
              ELSE Len(s) + 1
        p9 == SkipWS(s, c + 1)
    IN  IF /\ i <= Len(s) /\ s[i] = "{"
           /\ At(s, p1, << Q, "name", Q >>)
           /\ At(s, p2, << ":" >>)
           /\ At(s, p3, << Q >>)
           /\ p4 > p3 + 1 /\ p4 <= Len(s)
           /\ At(s, p5, << "," >>)
           /\ At(s, p6, << Q, "arguments", Q >>)
           /\ At(s, p7, << ":" >>)
           /\ c <= Len(s)
           /\ At(s, p9, << "}" >>)
        THEN [ok |-> TRUE, name |-> SubSeq(s, p3 + 1, p4 - 1), args |-> SubSeq(s, p8, c)]
        ELSE NoSingle

\* The leftmost match of singleFunctionPattern.
FindSingle(s) ==
    LET at == {i \in 1..Len(s) : SingleAt(s, i).ok}
    IN  IF at = {} THEN NoSingle ELSE SingleAt(s, Least(at))

extractSingleFunctionCall(text, now) ==
    LET m == FindSingle(text)
        argsStr == IF m.args # <<>> /\ m.args[1] = Q
                   THEN LET r == Unmarshal(m.args)
                        IN  IF r.ok /\ r.val.kind = "string" THEN r.val.atom ELSE m.args
                   ELSE m.args
    IN  IF ~m.ok THEN <<>>
        ELSE << ToolCall(generateCallID(now), << "function" >>, m.name, argsStr) >>

\* functionCallPattern matched at i: the two captured groups.
NaturalAt(s, i) ==
    LET p1 == SkipWS(s, i + 1)
        p2 == SkipWS(s, p1 + 1)
        e  == WordsEnd(s, p2)
        \* the name is followed by the keyword, or its last word is the keyword
        k  == IF e <= Len(s) /\ s[e] = ":" THEN e - 1 ELSE SkipWS(s, e)
        p3 == SkipWS(s, k + 2)
        c  == IndexOf(s, p3 + 1, "}")
    IN  IF /\ i <= Len(s) /\ s[i] = CallFunction
           /\ At(s, p1, << ":" >>)
           /\ k > p2
           /\ k <= Len(s) /\ s[k] \in {Parameters, "arguments"}
           /\ At(s, k + 1, << ":" >>)
           /\ At(s, p3, << "{" >>)
           /\ c <= Len(s)
        THEN [ok |-> TRUE, name |-> SubSeq(s, p2, IF k < e THEN k - 1 ELSE e - 1),
              args |-> SubSeq(s, p3, c)]
        ELSE NoSingle

\* The leftmost match of functionCallPattern.
FindNatural(s) ==
    LET at == {i \in 1..Len(s) : NaturalAt(s, i).ok}
    IN  IF at = {} THEN NoSingle ELSE NaturalAt(s, Least(at))

extractNaturalCall(text, now) ==
    LET m == FindNatural(text)
    IN  IF m.ok /\ Unmarshal(TrimSpace(m.args)).ok
        THEN << ToolCall(generateCallID(now), << "function" >>, TrimSpace(m.name),
                         TrimSpace(m.args)) >>
        ELSE <<>>

\* The part of the text the strategies scan.
ScanText(text) == IF Len(text) > ScanLimit THEN SubSeq(text, 1, ScanLimit) ELSE text

\* The result of the first strategy that found a call, in the order fenced,
\* inline, single, natural.
FirstCalls_InlineFirst(fenced, inline, single, natural) ==
    IF inline # <<>> THEN inline
    ELSE IF fenced # <<>> THEN fenced
    ELSE IF single # <<>> THEN single
    ELSE natural

FirstCalls(fenced, inline, single, natural) ==
    IF fenced # <<>> THEN fenced
    ELSE IF inline # <<>> THEN inline
    ELSE IF single # <<>> THEN single
    ELSE natural

\* ExtractToolInvocations at the time now: the calls, <<>> for nil.
ExtractToolInvocations(text, now) ==
    IF text = <<>> THEN <<>>
    ELSE FirstCalls(extractFenced(ScanText(text)), extractInlineToolCalls(ScanText(text)),
                    extractSingleFunctionCall(ScanText(text), now),
                    extractNaturalCall(ScanText(text), now))

\* Whether the JSON text decodes into a map that has the key tool_calls.
HasToolCallsKey(jsonStr) ==
    LET r == Unmarshal(jsonStr)
    IN  r.ok /\ r.val.kind \in {"object", "null"} /\ HasKey(r.val, << "tool_calls" >>)

\* ReplaceAllStringFunc of toolCallFencePattern: the text without the
\* fences whose group has the key tool_calls.
removeToolFences(text) ==
    LET ms == FenceMatches(text)
        gone == {k \in 1..Len(ms) : HasToolCallsKey(SubSeq(text, ms[k].open, ms[k].close))}
        Removed(pos) == \E k \in gone : ms[k].start <= pos /\ pos < ms[k].end
        Step(out, pos) == IF Removed(pos) THEN out ELSE Append(out, text[pos])
    IN  FoldRange(Step, <<>>, 1, Len(text))

\* One round of the loop of removeInlineToolCallJSON at the index i, unless
\* an object removed before reaches beyond i.
RemoveStep(text, st, i) ==
    IF i < st.i THEN st
    ELSE IF text[i] # "{" THEN [i |-> i + 1, result |-> Append(st.result, text[i])]
    ELSE LET m == MatchBrace(text, i)
         IN  IF m.braceCount = 0 /\ HasToolCallsKey(SubSeq(text, i, m.j - 1))
             THEN [i |-> m.j, result |-> st.result]
             ELSE [i |-> i + 1, result |-> Append(st.result, text[i])]

removeInlineToolCallJSON(text) ==
    LET Step(st, i) == RemoveStep(text, st, i)
    IN  FoldRange(Step, [i |-> 1, result |-> <<>>], 1, Len(text)).result

RemoveToolJSONContent(text) ==
    TrimSpace(removeInlineToolCallJSON(removeToolFences(text)))

\* ------------------------------------------------------------ the responses
\* The JSON string of one word.
Str(w) == << Q, w, Q >>

\* {"x":1}
ArgsObject == << "{" >> \o Str("x") \o << ":", "1", "}" >>

\* {"tool_calls":[{"id":"a","type":"function","function":{"name":"f","arguments":{"x":1}}}]}
Payload ==
    << "{" >> \o Str("tool_calls") \o << ":", "[", "{" >>
    \o Str("id") \o << ":" >> \o Str("a") \o << "," >>
    \o Str("type") \o << ":" >> \o Str("function") \o << "," >>
    \o Str("function") \o << ":", "{" >>
    \o Str("name") \o << ":" >> \o Str("f") \o << "," >>
    \o Str("arguments") \o << ":" >> \o ArgsObject
    \o << "}", "}", "]", "}" >>

\* {"name":"f","arguments":{"x":1}}
SinglePayload ==
    << "{" >> \o Str("name") \o << ":" >> \o Str("f") \o << "," >>
    \o Str("arguments") \o << ":" >> \o ArgsObject \o << "}" >>

\* The ways a response carries a call after its visible text.
Wrappings == {"fence", "inline", "nested", "single", "natural", "none"}

\* The response with the visible text v and the tool_calls object p in the
\* wrapping w (fence, inline or nested).
Wrap(v, w, p) ==
    CASE w = "fence" -> v \o << "\n", Fence, "json", "\n" >> \o p \o << "\n", Fence >>
      [] w = "inline" -> v \o << " " >> \o p
      [] OTHER ->
            v \o << " ", "{" >> \o Str("data") \o << ":" >> \o p
            \o << "," >> \o Str("note") \o << ":" >> \o Str("hi") \o << "}" >>

\* The response with the visible text v and the call in the wrapping w.
Compose(v, w) ==
    CASE w \in {"fence", "inline", "nested"} -> Wrap(v, w, Payload)
      [] w = "single" -> v \o << " " >> \o SinglePayload
      [] w = "natural" ->
            v \o << " ", CallFunction, ":", " ", "f", " ", "arguments", ":" >>
            \o ArgsObject
      [] OTHER -> v

\* The symbols of a visible text.
VisibleSymbols == {"hi", " ", "{", "}", Fence, "json", Q}

\* The visible texts of at most n symbols.
RECURSIVE VisibleTexts(_)
VisibleTexts(n) ==
    IF n = 0 THEN { <<>> }
    ELSE VisibleTexts(n - 1)
         \cup {Append(v, x) : v \in {u \in VisibleTexts(n - 1) : Len(u) = n - 1},
                              x \in VisibleSymbols}

\* The ways the model's JSON gives the id, the type and the arguments of a
\* call.
IdKinds == {"a", "b", "empty", "absent"}

TypeKinds == {"function", "absent"}

ArgKinds == {"object", "string", "padded", "empty", "array", "null", "absent"}

IdMember(idk) ==
    CASE idk = "absent" -> <<>>
      [] idk = "empty" -> Str("id") \o << ":", Q, Q, "," >>
      [] OTHER -> Str("id") \o << ":" >> \o Str(idk) \o << "," >>

TypeMember(tk) ==
    IF tk = "absent" THEN <<>>
    ELSE Str("type") \o << ":" >> \o Str("function") \o << "," >>

\* The JSON string whose value is the text {"x":1}.
ArgsString == << Q, "{", BS, Q, "x", BS, Q, ":", "1", "}", Q >>

ArgsMember(ak) ==
    CASE ak = "absent" -> <<>>
      [] ak = "object" -> << "," >> \o Str("arguments") \o << ":" >> \o ArgsObject
      [] ak = "string" -> << "," >> \o Str("arguments") \o << ":" >> \o ArgsString
      [] ak = "padded" ->
            << "," >> \o Str("arguments") \o << ":", Q, " ", "{", "}", " ", Q >>
      [] ak = "empty" -> << "," >> \o Str("arguments") \o << ":", Q, Q >>
      [] ak = "array" -> << "," >> \o Str("arguments") \o << ":", "[", "1", "]" >>
      [] OTHER -> << "," >> \o Str("arguments") \o << ":", "null" >>

\* One element of tool_calls, for the function f.
CallText(idk, tk, ak) ==
    << "{" >> \o IdMember(idk) \o TypeMember(tk)
    \o Str("function") \o << ":", "{" >> \o Str("name") \o << ":" >> \o Str("f")
    \o ArgsMember(ak) \o << "}", "}" >>

\* The tool_calls object with the elements of elems.
CallsPayload(elems) ==
    << "{" >> \o Str("tool_calls") \o << ":", "[" >> \o Join(elems, << "," >>)
    \o << "]", "}" >>

\* The tool_calls objects a model may write: one call of every kind, and two
\* calls with the same, with different and with no ids.
CallPayloads ==
    {CallsPayload(<< CallText(idk, tk, ak) >>) :
        idk \in IdKinds, tk \in TypeKinds, ak \in ArgKinds}
    \cup {CallsPayload(<< CallText(i1, "function", "string"),
                          CallText(i2, "function", "object") >>) :
             i1 \in IdKinds, i2 \in IdKinds}

CallVisibles == { <<>>, << "hi" >> }

\* A response with one of the tool_calls objects has arrived.
CallsInit ==
    /\ visible \in CallVisibles
    /\ wrapping \in {"fence", "inline"}
    /\ response \in {Wrap(visible, wrapping, p) : p \in CallPayloads}
    /\ toolCalls = <<>>
    /\ cleaned = <<>>
    /\ extracted = FALSE
    /\ stripped = FALSE

\* {"tool_calls":[{"function":{"name":n}}]}
NamedPayload(n) ==
    << "{" >> \o Str("tool_calls") \o << ":", "[", "{" >>
    \o Str("function") \o << ":", "{" >> \o Str("name") \o << ":" >> \o Str(n)
    \o << "}", "}", "]", "}" >>

\* The four forms a call is written in, each with a function name of its own.
Forms == {"fence", "inline", "single", "natural"}

\* The call written in the form k.
Piece(k) ==
    CASE k = "fence" -> << Fence, "json" >> \o NamedPayload("f") \o << Fence >>
      [] k = "inline" -> NamedPayload("a")
      [] k = "single" ->
            << "{" >> \o Str("name") \o << ":" >> \o Str("x") \o << "," >>
            \o Str("arguments") \o << ":", "{", "}", "}" >>
      [] OTHER -> << CallFunction, ":", "hi", " ", "arguments", ":", "{", "}" >>

\* The sequences of distinct forms.
FormOrders == UNION {Perms(S) : S \in SUBSET Forms}

\* The text that says hi and then writes the calls of the forms ks in order.
RECURSIVE Mixed(_)
Mixed(ks) ==
    IF ks = <<>> THEN << "hi" >>
    ELSE Mixed(SubSeq(ks, 1, Len(ks) - 1)) \o << " " >> \o Piece(ks[Len(ks)])

\* A response that writes calls in several forms has arrived; wrapping holds
\* the forms in the order of the text.
MixedInit ==
    /\ visible = << "hi" >>
    /\ wrapping \in FormOrders
    /\ response = Mixed(wrapping)
    /\ toolCalls = <<>>
    /\ cleaned = <<>>
    /\ extracted = FALSE
    /\ stripped = FALSE

\* A visible text of n symbols: hi hi hi ...
Padding(n) == [i \in 1..n |-> IF i % 2 = 1 THEN "hi" ELSE " "]

\* The lengths of the visible texts that put the tool_calls object before,
\* across and after the scan limit.
PaddingLengths == (ScanLimit - Len(Payload) - 4)..(ScanLimit + 1)

\* A long response has arrived: its tool_calls object ends near the scan
\* limit, crosses it or starts after it.
LongInit ==
    /\ visible \in {Padding(n) : n \in PaddingLengths}
    /\ wrapping \in {"fence", "inline"}
    /\ response = Wrap(visible, wrapping, Payload)
    /\ toolCalls = <<>>
    /\ cleaned = <<>>
    /\ extracted = FALSE
    /\ stripped = FALSE

\* The longest string value of the responses with braces in strings.
MaxString == 2

\* What a JSON string may hold that matters to a brace count: a brace, an
\* escaped quote, an escaped backslash.
StringPieces == { << "{" >>, << "}" >>, << BS, Q >>, << BS, BS >> }

\* The texts of the string values of at most n pieces.
RECURSIVE StringTexts(_)
StringTexts(n) ==
    IF n = 0 THEN { <<>> }
    ELSE StringTexts(n - 1) \cup {t \o x : t \in StringTexts(n - 1), x \in StringPieces}

\* {"tool_calls":[{"function":{"name":"f","arguments":{"x":"<t>"}}}]}
BracePayload(t) ==
    << "{" >> \o Str("tool_calls") \o << ":", "[", "{" >>
    \o Str("function") \o << ":", "{" >>
    \o Str("name") \o << ":" >> \o Str("f") \o << "," >>
    \o Str("arguments") \o << ":", "{" >> \o Str("x") \o << ":", Q >> \o t \o << Q, "}" >>
    \o << "}", "}", "]", "}" >>

\* What follows the tool_calls object in those responses.
AfterObject == << " ", "hi" >>

\* A response has arrived whose tool_calls object has braces, escaped quotes
\* and escaped backslashes in a string value.
BraceInit ==
    /\ visible \in VisibleTexts(2)
    /\ wrapping = "inline"
    /\ response \in {visible \o << " " >> \o BracePayload(t) \o AfterObject : t \in StringTexts(MaxString)}
    /\ toolCalls = <<>>
    /\ cleaned = <<>>
    /\ extracted = FALSE
    /\ stripped = FALSE

\* {"tool_calls":<v>}
ToolCallsObject(v) == << "{" >> \o Str("tool_calls") \o << ":" >> \o v \o << "}" >>

\* The objects with the key tool_calls that hold no call: an empty list, a
\* string, null, a list with an element that is no object; and one that
\* holds a call.
KeyedPayloads ==
    { ToolCallsObject(<< "[", "]" >>), ToolCallsObject(Str("hi")),
      ToolCallsObject(<< "null" >>), ToolCallsObject(<< "[", "1", "]" >>), Payload }

\* A response with one of those objects has arrived.
KeyedInit ==
    /\ visible \in VisibleTexts(1)
    /\ wrapping \in {"fence", "inline"}
    /\ response \in {Wrap(visible, wrapping, p) : p \in KeyedPayloads}
    /\ toolCalls = <<>>
    /\ cleaned = <<>>
    /\ extracted = FALSE
    /\ stripped = FALSE

\* The times generateCallID may read.
Clock == {"1", "2"}

\* No response is being handled.
ToolIdle ==
    /\ visible = <<>>
    /\ wrapping = "none"
    /\ response = <<>>
    /\ toolCalls = <<>>
    /\ cleaned = <<>>
    /\ extracted = FALSE
    /\ stripped = FALSE

\* A response has arrived.
ToolInit ==
    /\ visible \in VisibleTexts(MaxVisible)
    /\ wrapping \in Wrappings
    /\ response = Compose(visible, wrapping)
    /\ toolCalls = <<>>
    /\ cleaned = <<>>
    /\ extracted = FALSE
    /\ stripped = FALSE

\* The handler extracts the calls of the response.
Extract ==
    /\ ~extracted
    /\ \E now \in Clock : toolCalls' = ExtractToolInvocations(response, now)
    /\ extracted' = TRUE
    /\ UNCHANGED << visible, wrapping, response, cleaned, stripped >>
    /\ UNCHANGED notTools

\* The handler strips the tool JSON from the response.
Strip ==
    /\ ~stripped
    /\ cleaned' = RemoveToolJSONContent(response)
    /\ stripped' = TRUE
    /\ UNCHANGED << visible, wrapping, response, toolCalls, extracted >>
    /\ UNCHANGED notTools

\* ------------------------------------------------------------ messages
\* The longest message list of a request.
MaxMessages == 3

\* A part of a content list: its type and, if it has one, its text.
Part(type, text, hasText) == [type |-> type, text |-> text, hasText |-> hasText]

TextPart(t) == Part("text", t, TRUE)

ImagePart == Part("image_url", <<>>, FALSE)

\* The content of a message: a string, a list of parts, or neither (null).
StringContent(t) == [kind |-> "string", text |-> t, parts |-> <<>>]

ListContent(ps) == [kind |-> "list", text |-> <<>>, parts |-> ps]

NullContent == [kind |-> "null", text |-> <<>>, parts |-> <<>>]

Message(role, content, calls, toolCallID) ==
    [Role |-> role, Content |-> content, ToolCalls |-> calls, ToolCallID |-> toolCallID]

\* Message.ParseContent: the text of the content, for a list the texts of its
\* text parts in their order.
RECURSIVE PartsText(_)
PartsText(ps) ==
    IF ps = <<>> THEN <<>>
    ELSE (IF ps[1].type = "text" /\ ps[1].hasText THEN ps[1].text ELSE <<>>)
         \o PartsText(Tail(ps))

ParseContent(msg) ==
    CASE msg.Content.kind = "string" -> msg.Content.text
      [] msg.Content.kind = "list" -> PartsText(msg.Content.parts)
      [] OTHER -> <<>>

\* A tool of a request: its type and the name of its function.
Tool(type, name) == [Type |-> type, Name |-> name]

\* A tool_choice: a string, an object that names a function, or none given.
ChoiceString(v) == [kind |-> "string", value |-> v]

ChoiceFunction(name) == [kind |-> "object", value |-> name]

ChoiceNull == [kind |-> "null", value |-> ""]

\* The fixed texts, each one symbol.
ToolsHeader == "<available tools>"

BaseInstructions == "<tool call format>"

RuleAuto == "<4. decide as needed>"

RuleRequired == "<4. must call a tool>"

RuleNamed == "<4. must call the tool>"

DefaultSystemText == "<you are an assistant>"

ToolResultMarker == "<tool call result>"

getToolChoiceInstructions(toolChoice, toolNames) ==
    CASE toolChoice.kind = "string" /\ toolChoice.value = "auto" ->
            << BaseInstructions, RuleAuto >>
      [] toolChoice.kind = "string" /\ toolChoice.value = "required" ->
            << BaseInstructions, RuleRequired >>
      [] toolChoice.kind = "object" ->
            << BaseInstructions, RuleNamed, toolChoice.value >>
      [] OTHER -> << BaseInstructions, RuleAuto >>

\* GenerateToolPrompt for tools without parameters: <<>> is the empty prompt.
GenerateToolPrompt(tools, toolChoice) ==
    LET fns == SelectSeq(tools, LAMBDA t : t.Type = "function")
        toolDefs == [i \in 1..Len(fns) |-> << "###", fns[i].Name, "\n" >>]
        toolNames == [i \in 1..Len(fns) |-> fns[i].Name]
    IN  IF tools = <<>> \/ toolDefs = <<>> THEN <<>>
        ELSE << "\n\n", ToolsHeader >> \o Join(toolDefs, << "\n\n" >>) \o << "\n\n" >>
             \o getToolChoiceInstructions(toolChoice, toolNames)

convertToolMessage(msg) ==
    Message("user", StringContent(<< ToolResultMarker, "\n" >> \o ParseContent(msg)),
            <<>>, <<>>)

\* appendTextToContent: the suffix goes onto a string, into the last text
\* part of a list if its text is a string, into a new part of a list without
\* text parts, and nowhere otherwise.
appendTextToContent(content, suffix) ==
    CASE content.kind = "string" -> StringContent(content.text \o suffix)
      [] content.kind = "list" ->
            LET texts == {i \in 1..Len(content.parts) : content.parts[i].type = "text"}
                lastTextIdx == CHOOSE i \in texts : \A j \in texts : j <= i
            IN  IF texts = {}
                THEN ListContent(Append(content.parts, TextPart(suffix)))
                ELSE IF content.parts[lastTextIdx].hasText
                     THEN ListContent([content.parts EXCEPT
                                          ![lastTextIdx].text = @ \o suffix])
                     ELSE content
      [] OTHER -> content

ProcessMessagesWithTools(messages, tools, toolChoice, toolSupport) ==
    LET toolPrompt == GenerateToolPrompt(tools, toolChoice)
        converted == [i \in 1..Len(messages) |->
                        IF messages[i].Role = "tool" THEN convertToolMessage(messages[i])
                        ELSE messages[i]]
        systems == {i \in 1..Len(messages) : converted[i].Role = "system"}
        systemMsg == Message("system", StringContent(<< DefaultSystemText >> \o toolPrompt),
                             <<>>, <<>>)
    IN  IF ~toolSupport \/ tools = <<>> THEN messages
        ELSE IF toolChoice.kind = "string" /\ toolChoice.value = "none" THEN messages
        ELSE IF toolPrompt = <<>> THEN messages
        ELSE IF systems # {}
             THEN [converted EXCEPT
                      ![Least(systems)].Content = appendTextToContent(@, toolPrompt)]
             ELSE << systemMsg >> \o converted

\* The id of the call in the histories.
HistoryCallID == << "call_a" >>

\* The messages a request may hold.
MessageShapes ==
    { Message("system", StringContent(<< "be brief" >>), <<>>, <<>>),
      Message("system", ListContent(<< TextPart(<< "be brief" >>), ImagePart >>), <<>>, <<>>),
      Message("system", ListContent(<< ImagePart >>), <<>>, <<>>),
      Message("system", NullContent, <<>>, <<>>),
      Message("user", StringContent(<< "hi" >>), <<>>, <<>>),
      Message("assistant", StringContent(<< "hello" >>), <<>>, <<>>),
      Message("assistant", NullContent,
              << ToolCall(HistoryCallID, << "function" >>, << "f" >>, ArgsObject) >>, <<>>),
      Message("tool", StringContent(<< "result" >>), <<>>, HistoryCallID) }

\* The message lists of at most n messages.
RECURSIVE MessageLists(_)
MessageLists(n) ==
    IF n = 0 THEN { <<>> }
    ELSE MessageLists(n - 1)
         \cup {Append(l, m) : l \in {k \in MessageLists(n - 1) : Len(k) = n - 1},
                              m \in MessageShapes}

ToolLists ==
    { <<>>, << Tool("function", "f") >>, << Tool("retrieval", "r") >>,
      << Tool("retrieval", "r"), Tool("function", "f") >> }

ToolChoices ==
    { ChoiceNull, ChoiceString("none"), ChoiceString("auto"), ChoiceString("required"),
      ChoiceFunction("f") }

\* No request is being translated.
MsgIdle ==
    /\ reqMessages = <<>>
    /\ reqTools = <<>>
    /\ reqToolChoice = ChoiceNull
    /\ cfgToolSupport = FALSE
    /\ processed = <<>>
    /\ translated = FALSE

\* A request has arrived.
MsgInit ==
    /\ reqMessages \in MessageLists(MaxMessages)
    /\ reqTools \in ToolLists
    /\ reqToolChoice \in ToolChoices
    /\ cfgToolSupport \in BOOLEAN
    /\ processed = <<>>
    /\ translated = FALSE

\* The request translator applies the tool-emulation transform.
Translate ==
    /\ ~translated
    /\ processed' =
          ProcessMessagesWithTools(reqMessages, reqTools, reqToolChoice, cfgToolSupport)
    /\ translated' = TRUE
    /\ UNCHANGED << reqMessages, reqTools, reqToolChoice, cfgToolSupport >>
    /\ UNCHANGED notMessages

\* ------------------------------------------------------------ the messages in memory
\* A cell of the heap: the backing array of a []Message, the backing array
\* of a []interface{} of content parts (its elements are the addresses of
\* the parts), or the map of one part.
NoPart == Part("", <<>>, FALSE)

MessagesCell(msgs) == [kind |-> "messages", elems |-> msgs, part |-> NoPart]

PartsCell(addrs) == [kind |-> "parts", elems |-> addrs, part |-> NoPart]

MapCell(p) == [kind |-> "map", elems |-> <<>>, part |-> p]

\* A slice: the address of its backing array and its length.
Slice(ref, len) == [ref |-> ref, len |-> len]

NoSlice == Slice(0, 0)

\* A list-valued content in memory: the slice of its parts.
ListRef(ref, len) == [kind |-> "listref", ref |-> ref, len |-> len]

\* The heap h with the parts ps stored behind it, each in a map of its own,
\* and then the array of their addresses.
StoreParts(h, ps) ==
    h \o [i \in 1..Len(ps) |-> MapCell(ps[i])]
      \o << PartsCell([i \in 1..Len(ps) |-> Len(h) + i]) >>

\* The message m as it stands in memory once its parts are stored behind h.
StoredMessage(h, m) ==
    IF m.Content.kind = "list"
    THEN [m EXCEPT !.Content = ListRef(Len(h) + Len(m.Content.parts) + 1, Len(m.Content.parts))]
    ELSE m

\* The heap that holds the contents of the messages msgs, and the messages as
\* they stand in memory.
RECURSIVE StoreContents(_)
StoreContents(msgs) ==
    IF msgs = <<>> THEN [heap |-> <<>>, msgs |-> <<>>]
    ELSE LET r == StoreContents(SubSeq(msgs, 1, Len(msgs) - 1))
             m == msgs[Len(msgs)]
         IN  [heap |-> IF m.Content.kind = "list" THEN StoreParts(r.heap, m.Content.parts)
                       ELSE r.heap,
              msgs |-> Append(r.msgs, StoredMessage(r.heap, m))]

\* The memory of a caller that holds the messages msgs: the heap and the slice.
StoreList(msgs) ==
    LET r == StoreContents(msgs)
    IN  [heap |-> Append(r.heap, MessagesCell(r.msgs)),
         list |-> Slice(Len(r.heap) + 1, Len(msgs))]

\* What a reader of the memory sees: the content, the message, the list.
ReadContent(h, c) ==
    IF c.kind = "listref"
    THEN ListContent([i \in 1..c.len |-> h[h[c.ref].elems[i]].part])
    ELSE c

ReadMessage(h, m) == [m EXCEPT !.Content = ReadContent(h, m.Content)]

ReadList(h, l) ==
    IF l.ref = 0 THEN <<>> ELSE [i \in 1..l.len |-> ReadMessage(h, h[l.ref].elems[i])]

WritePart_InPlace(h, q, idx, a, suffix) ==
    [h EXCEPT ![a].part = IF @.hasText THEN [@ EXCEPT !.text = @ \o suffix] ELSE @]

\* appendTextToContent, a list with a text part: newPart is a copy of the map
\* at a, the suffix goes onto its text if that is a string, and the element
\* idx of the array at q is made to point to it.
WritePart(h, q, idx, a, suffix) ==
    LET part == h[a].part
        newPart == IF part.hasText THEN [part EXCEPT !.text = @ \o suffix] ELSE part
    IN  [Append(h, MapCell(newPart)) EXCEPT ![q].elems[idx] = Len(h) + 1]

\* appendTextToContent in memory: the heap after it and the content it returns.
appendTextInMemory(h, content, suffix) ==
    CASE content.kind = "string" ->
            [heap |-> h, content |-> StringContent(content.text \o suffix)]
      [] content.kind = "listref" ->
            LET c == SubSeq(h[content.ref].elems, 1, content.len)
                result == Len(h) + 1
                h1 == Append(h, PartsCell(c))
                texts == {i \in 1..Len(c) : h[c[i]].part.type = "text"}
                lastTextIdx == CHOOSE i \in texts : \A j \in texts : j <= i
                h2 == Append(h1, MapCell(TextPart(suffix)))
            IN  IF texts # {}
                THEN [heap |-> WritePart(h1, result, lastTextIdx, c[lastTextIdx], suffix),
                      content |-> ListRef(result, Len(c))]
                ELSE [heap |-> Append(h2, PartsCell(Append(c, Len(h2)))),
                      content |-> ListRef(Len(h2) + 1, Len(c) + 1)]
      [] OTHER -> [heap |-> h, content |-> content]

\* ProcessMessagesWithTools in memory: the heap after it and the slice it
\* returns.
processInMemory(h, list, tools, toolChoice, toolSupport) ==
    LET toolPrompt == GenerateToolPrompt(tools, toolChoice)
        messages == SubSeq(h[list.ref].elems, 1, list.len)
        converted == [i \in 1..Len(messages) |->
                        IF messages[i].Role = "tool"
                        THEN convertToolMessage(ReadMessage(h, messages[i]))
                        ELSE messages[i]]
        processedRef == Len(h) + 1
        h1 == Append(h, MessagesCell(converted))
        systems == {i \in 1..Len(messages) : converted[i].Role = "system"}
        r == appendTextInMemory(h1, converted[Least(systems)].Content, toolPrompt)
        systemMsg == Message("system", StringContent(<< DefaultSystemText >> \o toolPrompt),
                             <<>>, <<>>)
    IN  IF ~toolSupport \/ tools = <<>> THEN [heap |-> h, list |-> list]
        ELSE IF toolChoice.kind = "string" /\ toolChoice.value = "none"
             THEN [heap |-> h, list |-> list]
        ELSE IF toolPrompt = <<>> THEN [heap |-> h, list |-> list]
        ELSE IF systems # {}
             THEN [heap |-> [r.heap EXCEPT ![processedRef].elems[Least(systems)].Content = r.content],
                   list |-> Slice(processedRef, Len(messages))]
             ELSE [heap |-> Append(h1, MessagesCell(<< systemMsg >> \o converted)),
                   list |-> Slice(Len(h1) + 1, Len(messages) + 1)]

\* No request is held in memory.
HeapIdle ==
    /\ heap = <<>>
    /\ callerList = NoSlice
    /\ returnedList = NoSlice

\* A request has arrived and its messages are in memory.
HeapInit ==
    /\ heap = StoreList(reqMessages).heap
    /\ callerList = StoreList(reqMessages).list
    /\ returnedList = NoSlice

\* The request translator applies the tool-emulation transform to the
\* messages in memory; processed is what a reader of the returned slice sees.
TranslateInMemory ==
    /\ ~translated
    /\ LET r == processInMemory(heap, callerList, reqTools, reqToolChoice, cfgToolSupport)
       IN  /\ heap' = r.heap
           /\ returnedList' = r.list
           /\ processed' = ReadList(r.heap, r.list)
    /\ translated' = TRUE
    /\ UNCHANGED << reqMessages, reqTools, reqToolChoice, cfgToolSupport, callerList >>
    /\ UNCHANGED << poolVars, toolVars, regVars, cntVars, streamVars, uploadVars, statVars, taskVars, snapVars, rpmVars >>

\* ------------------------------------------------------------ the registry
\* The updateDynamicMappings calls of a run, and the models of one call.
MaxFetches == 2

MaxFetched == 2

\* A model name is a sequence of symbols, each a run of bytes; a symbol with
\* capitals has a lower-case twin.
LowerSym(x) ==
    CASE x = "GLM" -> "glm"
      [] x = "-V" -> "-v"
      [] x = "-Thinking" -> "-thinking"
      [] x = "-Search" -> "-search"
      [] OTHER -> x

\* strings.ToLower
ToLower(name) == [i \in 1..Len(name) |-> LowerSym(name[i])]

\* strings.EqualFold
EqualFold(a, b) == ToLower(a) = ToLower(b)

\* strings.HasPrefix and strings.HasSuffix
HasPrefix(name, prefix) ==
    Len(prefix) <= Len(name) /\ SubSeq(name, 1, Len(prefix)) = prefix

HasSuffix(name, suffix) ==
    Len(suffix) <= Len(name)
    /\ SubSeq(name, Len(name) - Len(suffix) + 1, Len(name)) = suffix

ModelMapping(displayName, upstreamID, upstreamName, thinking, webSearch, autoWebSearch, mcpServers, ownedBy, isBuiltin) ==
    [DisplayName |-> displayName, UpstreamModelID |-> upstreamID,
     UpstreamModelName |-> upstreamName, EnableThinking |-> thinking,
     WebSearch |-> webSearch, AutoWebSearch |-> autoWebSearch,
     MCPServers |-> mcpServers, OwnedBy |-> ownedBy, IsBuiltin |-> isBuiltin]

\* The model of the upstream's list: its id, name and owner.
ZAIModel(id, name, ownedBy) == [ID |-> id, Name |-> name, OwnedBy |-> ownedBy]

\* The built-in table: GLM-5 and GLM-5-Thinking of it.
BuiltinMappings ==
    LET g == << "GLM", "-5" >>
        t == << "GLM", "-5", "-Thinking" >>
    IN  (g :> ModelMapping(g, << "glm", "-5" >>, g, FALSE, FALSE, FALSE, <<>>,
                           "z.ai", TRUE))
        @@ (t :> ModelMapping(t, << "glm", "-5" >>, t, TRUE, FALSE, FALSE, <<>>,
                              "z.ai", TRUE))

\* StartModelFetcher: initBuiltinMappings writes the built-in table.
initBuiltinMappings ==
    /\ regLast = "none"
    /\ modelMappings' = BuiltinMappings
    /\ builtins' = BuiltinMappings
    /\ regLast' = "init"
    /\ UNCHANGED << fetches, fetched, resolved, available >>
    /\ UNCHANGED notRegistry

inferModelConfig(modelID) ==
    [enableThinking |-> TRUE, autoWebSearch |-> TRUE,
     mcpServers |-> IF \E i \in 1..Len(modelID) : LowerSym(modelID[i]) = "-v"
                    THEN << "advanced-search", "vlm-image-search",
                            "vlm-image-recognition", "vlm-image-processing" >>
                    ELSE << "advanced-search" >>]

\* Whether updateDynamicMappings finds the id in the registry: as a key, or
\* as a key but for the case of its letters.
AlreadyMapped_Never(mappings, id) == FALSE

AlreadyMapped(mappings, id) ==
    id \in DOMAIN mappings \/ \E existingID \in DOMAIN mappings : EqualFold(existingID, id)

\* The mapping updateDynamicMappings makes of a fetched model.
DynamicMapping(model) ==
    LET displayName == IF model.Name = <<>> THEN model.ID ELSE model.Name
        ownedBy == IF model.OwnedBy \in {"", "openai"} THEN "z.ai" ELSE model.OwnedBy
        cfg == inferModelConfig(model.ID)
    IN  ModelMapping(displayName, model.ID, displayName, cfg.enableThinking, FALSE,
                     cfg.autoWebSearch, cfg.mcpServers, ownedBy, FALSE)

\* One round of the loop of updateDynamicMappings.
RegisterModel(mappings, model) ==
    IF ~HasPrefix(ToLower(model.ID), << "glm" >>) THEN mappings
    ELSE IF AlreadyMapped(mappings, model.ID) THEN mappings
    ELSE MapPut(mappings, model.ID, DynamicMapping(model))

RECURSIVE RegisterAll(_, _)
RegisterAll(mappings, models) ==
    IF models = <<>> THEN mappings
    ELSE RegisterAll(RegisterModel(mappings, models[1]), Tail(models))

\* The models the upstream may list.
FetchedModels ==
    { ZAIModel(<< "glm", "-6" >>, <<>>, ""),
      ZAIModel(<< "GLM", "-6" >>, << "GLM", "-6" >>, "openai"),
      ZAIModel(<< "glm", "-6", "-thinking" >>, << "GLM", "-5" >>, "zhipu"),
      ZAIModel(<< "GLM", "-5" >>, << "x" >>, "zhipu"),
      ZAIModel(<< "gpt", "-4" >>, <<>>, "openai") }

\* The lists of at most n models.
RECURSIVE FetchedLists(_)
FetchedLists(n) ==
    IF n = 0 THEN { <<>> }
    ELSE FetchedLists(n - 1)
         \cup {Append(l, m) : l \in {k \in FetchedLists(n - 1) : Len(k) = n - 1},
                              m \in FetchedModels}

\* fetchLatestModels got the list models: updateDynamicMappings.
updateDynamicMappings(models) ==
    /\ regLast # "none"
    /\ fetches < MaxFetches
    /\ modelMappings' = RegisterAll(modelMappings, models)
    /\ fetches' = fetches + 1
    /\ fetched' = {models[i].ID : i \in 1..Len(models)}
    /\ resolved' = << >>
    /\ available' = << >>
    /\ regLast' = "update"
    /\ UNCHANGED builtins
    /\ UNCHANGED notRegistry

\* ParseModelName: the base name and the flags of the suffix.
ParseModelName(modelID) ==
    LET lower == ToLower(modelID)
        n == Len(modelID)
    IN  IF HasSuffix(lower, << "-thinking", "-search" >>)
        THEN [baseModel |-> SubSeq(modelID, 1, n - 2), enableThinking |-> TRUE,
              enableSearch |-> TRUE]
        ELSE IF HasSuffix(lower, << "-thinking" >>)
        THEN [baseModel |-> SubSeq(modelID, 1, n - 1), enableThinking |-> TRUE,
              enableSearch |-> FALSE]
        ELSE IF HasSuffix(lower, << "-search" >>)
        THEN [baseModel |-> SubSeq(modelID, 1, n - 1), enableThinking |-> FALSE,
              enableSearch |-> TRUE]
        ELSE [baseModel |-> modelID, enableThinking |-> FALSE, enableSearch |-> FALSE]

\* The flag GetModelMapping returns for a flag of the mapping and the flag of
\* the suffix.
ResolvedFlag_Suffix(default, requested) == requested

ResolvedFlag(default, requested) == IF requested THEN TRUE ELSE default

NotFound == [ok |-> FALSE, mapping |-> << >>]

\* GetModelMapping, a function of the registry and the name.
LookupMapping(mappings, modelID) ==
    LET parsed == ParseModelName(modelID)
    IN  IF parsed.baseModel \in DOMAIN mappings
        THEN LET mapping == mappings[parsed.baseModel]
             IN  [ok |-> TRUE,
                  mapping |-> [mapping EXCEPT
                      !.EnableThinking = ResolvedFlag(@, parsed.enableThinking),
                      !.WebSearch = ResolvedFlag(@, parsed.enableSearch),
                      !.AutoWebSearch = ResolvedFlag(@, parsed.enableSearch)]]
        ELSE IF modelID \in DOMAIN mappings
        THEN [ok |-> TRUE, mapping |-> mappings[modelID]]
        ELSE NotFound

\* The names a client may request.
RequestedNames ==
    { << "GLM", "-5" >>, << "GLM", "-5", "-thinking" >>, << "GLM", "-5", "-search" >>,
      << "GLM", "-5", "-thinking", "-search" >>, << "GLM", "-5", "-Thinking" >>,
      << "glm", "-6", "-thinking" >>, << "glm", "-6", "-search" >>,
      << "gpt", "-4", "-thinking" >> }

GetModelMapping(modelID) ==
    /\ regLast # "none"
    /\ resolved' = << [name |-> modelID, result |-> LookupMapping(modelMappings, modelID)] >>
    /\ available' = << >>
    /\ fetched' = {}
    /\ regLast' = "resolve"
    /\ UNCHANGED << modelMappings, builtins, fetches >>
    /\ UNCHANGED notRegistry

modelSuffixes == << << "-thinking" >>, << "-search" >>, << "-thinking", "-search" >> >>

isBaseSuffixModel(modelID) ==
    LET idLower == ToLower(modelID)
    IN  /\ ~HasSuffix(idLower, << "-thinking" >>)
        /\ ~HasSuffix(idLower, << "-search" >>)
        /\ ~HasSuffix(idLower, << "-thinking", "-search" >>)

\* addModel: the list with id at its end unless an id that differs from it in
\* case only is in it.
addModel(models, id) ==
    IF \E i \in 1..Len(models) : EqualFold(models[i], id) THEN models
    ELSE Append(models, id)

\* The ids of GetAvailableModels for the keys in the order of the range loop.
RECURSIVE AvailableIn(_, _)
AvailableIn(order, models) ==
    IF order = <<>> THEN models
    ELSE LET id == order[1]
             own == addModel(models, id)
             all == IF isBaseSuffixModel(id)
                    THEN addModel(addModel(addModel(own, id \o modelSuffixes[1]),
                                           id \o modelSuffixes[2]),
                                  id \o modelSuffixes[3])
                    ELSE own
         IN  AvailableIn(Tail(order), all)

\* The orders in which a range loop may visit the keys S.
RECURSIVE Orders(_)
Orders(S) ==
    IF S = {} THEN { <<>> }
    ELSE UNION { { << x >> \o o : o \in Orders(S \ {x}) } : x \in S }

GetAvailableModels ==
    /\ regLast # "none"
    /\ \E order \in Orders(DOMAIN modelMappings) :
          available' = AvailableIn(order, <<>>)
    /\ resolved' = << >>
    /\ fetched' = {}
    /\ regLast' = "list"
    /\ UNCHANGED << modelMappings, builtins, fetches >>
    /\ UNCHANGED notRegistry

\* The registry before StartModelFetcher.
RegIdle ==
    /\ modelMappings = << >>
    /\ builtins = << >>
    /\ fetches = 0
    /\ fetched = {}
    /\ resolved = << >>
    /\ available = << >>
    /\ regLast = "none"

\* ------------------------------------------------------- the token counter
\* The bytes of a text CountTokens is asked about, at most.
MaxBytes == 4

\* The bytes of the texts: the letter a, the lead bytes E3, E4 and F0, and
\* the continuation bytes 80, A0 and B8.
TextBytes == {97, 227, 228, 240, 128, 160, 184}

\* U+FFFD, what ranging over a string gives for a byte that starts no
\* encoding of a code point.
RuneError == 65533

\* The bytes an encoding that starts with the byte b0 has, 0 if none does.
RuneSize(b0) ==
    IF b0 < 128 THEN 1
    ELSE IF b0 >= 194 /\ b0 <= 223 THEN 2
    ELSE IF b0 >= 224 /\ b0 <= 239 THEN 3
    ELSE IF b0 >= 240 /\ b0 <= 244 THEN 4
    ELSE 0

\* The second bytes that may follow the lead byte b0.
AcceptRange(b0) ==
    CASE b0 = 224 -> 160..191
      [] b0 = 237 -> 128..159
      [] b0 = 240 -> 144..191
      [] b0 = 244 -> 128..143
      [] OTHER -> 128..191

\* The code point at byte i of the text and the bytes it takes.
DecodeRune(bytes, i) ==
    LET b0 == bytes[i]
        size == RuneSize(b0)
        bad == [r |-> RuneError, size |-> 1]
    IN  IF size = 1 THEN [r |-> b0, size |-> 1]
        ELSE IF size = 0 \/ i + size - 1 > Len(bytes) THEN bad
        ELSE IF bytes[i + 1] \notin AcceptRange(b0) THEN bad
        ELSE IF \E k \in 2..(size - 1) : bytes[i + k] \notin 128..191 THEN bad
        ELSE IF size = 2
        THEN [r |-> (b0 % 32) * 64 + (bytes[i + 1] % 64), size |-> 2]
        ELSE IF size = 3
        THEN [r |-> (b0 % 16) * 4096 + (bytes[i + 1] % 64) * 64 + (bytes[i + 2] % 64),
              size |-> 3]
        ELSE [r |-> (b0 % 8) * 262144 + (bytes[i + 1] % 64) * 4096
                    + (bytes[i + 2] % 64) * 64 + (bytes[i + 3] % 64),
              size |-> 4]

\* The code points a range loop over the text sees from byte i on.
RECURSIVE RunesFrom(_, _)
RunesFrom(bytes, i) ==
    IF i > Len(bytes) THEN <<>>
    ELSE LET d == DecodeRune(bytes, i)
         IN  << d.r >> \o RunesFrom(bytes, i + d.size)

Runes(bytes) == RunesFrom(bytes, 1)

\* The weights of CountTokens are counted in twentieths of a token.
TokenScale == 20

\* The weight of a code point: 1.4, 1.0, 0.25 or 0.5 tokens.
RuneWeight(r) ==
    IF \/ r >= 19968 /\ r <= 40959
       \/ r >= 13312 /\ r <= 19903
       \/ r >= 131072 /\ r <= 173791
       \/ r >= 63744 /\ r <= 64255
       \/ r >= 194560 /\ r <= 195103
    THEN 28
    ELSE IF (r >= 12288 /\ r <= 12351) \/ (r >= 65280 /\ r <= 65519) THEN 20
    ELSE IF r >= 0 /\ r <= 127 THEN 5
    ELSE 10

RECURSIVE SumWeights(_)
SumWeights(runes) ==
    IF runes = <<>> THEN 0 ELSE RuneWeight(Head(runes)) + SumWeights(Tail(runes))

\* int64(tokens + 0.5), and 1 at least for a text with a code point.
RoundTokens_NoFloor(scaled, runeCount) == (scaled + TokenScale \div 2) \div TokenScale

RoundTokens(scaled, runeCount) ==
    LET result == (scaled + TokenScale \div 2) \div TokenScale
    IN  IF result < 1 /\ runeCount > 0 THEN 1 ELSE result

CountTokens(bytes) ==
    IF bytes = <<>> THEN 0
    ELSE LET runes == Runes(bytes)
         IN  RoundTokens(SumWeights(runes), Len(runes))

\* The texts of at most n bytes.
RECURSIVE Texts(_)
Texts(n) ==
    IF n = 0 THEN { <<>> }
    ELSE Texts(n - 1)
         \cup {Append(t, b) : t \in {u \in Texts(n - 1) : Len(u) = n - 1}, b \in TextBytes}

\* Nothing is counted.
CntIdle ==
    /\ countText = <<>>
    /\ countCut = 0
    /\ counted = <<>>

\* A text and a place to cut it in two.
CntInit ==
    /\ countText \in Texts(MaxBytes)
    /\ countCut \in 0..Len(countText)
    /\ counted = <<>>

\* The two parts of the text.
S1 == SubSeq(countText, 1, countCut)

S2 == SubSeq(countText, countCut + 1, Len(countText))

\* CountTokens is called with the text and with each of its parts.
CountAll ==
    /\ counted = <<>>
    /\ counted' = << [whole |-> CountTokens(countText), left |-> CountTokens(S1),
                      right |-> CountTokens(S2)] >>
    /\ UNCHANGED << countText, countCut >>
    /\ UNCHANGED notCounter

\* ---------------------------------------------------- the streaming engine
\* The events the upstream sends in one response, at most.
MaxEvents == 4

\* The chunks of the emitted stream.
RoleChunk == [kind |-> "role"]

ReasoningChunk(d) == [kind |-> "reasoning", text |-> d]

ContentChunk(d) == [kind |-> "content", text |-> d]

\* The two chunks of the call at index i: its id, type and name, then its
\* arguments.
ToolCallChunks(i, call) ==
    << [kind |-> "tool_calls", index |-> i, id |-> call.ID, name |-> call.Name],
       [kind |-> "tool_calls", index |-> i, arguments |-> call.Arguments] >>

FinishChunk(reason) == [kind |-> "finish", reason |-> reason]

DoneLine == [kind |-> "[DONE]"]

RECURSIVE ToolCallBlock(_, _)
ToolCallBlock(calls, i) ==
    IF i > Len(calls) THEN <<>>
    ELSE ToolCallChunks(i - 1, calls[i]) \o ToolCallBlock(calls, i + 1)

\* init: the first delta that is not empty, of any phase, emits the role
\* chunk.
RoleChunks_NoFlag(flag, d) == IF d # <<>> THEN << RoleChunk >> ELSE <<>>

RoleChunks(flag, d) == IF ~flag /\ d # <<>> THEN << RoleChunk >> ELSE <<>>

\* The part of the cleaned cumulative answer that was not emitted yet.
VisibleTail(cleanedText, sent) ==
    IF Len(cleanedText) > Len(sent) /\ SubSeq(cleanedText, 1, Len(sent)) = sent
    THEN SubSeq(cleanedText, Len(sent) + 1, Len(cleanedText))
    ELSE <<>>

\* The answers of the upstream: a visible text, alone or followed by a
\* tool_calls object in a fence or inline.
Answers == {Compose(v, w) : v \in { <<>>, << "hi" >> }, w \in {"none", "fence", "inline"}}

\* The places at which the upstream may end a delta of the answer: after
\* the visible text, inside the tool_calls object, at the end.
CutsOf(answer) ==
    {n \in {0, 1, 12, Len(answer)} : n <= Len(answer)}

\* What is common to the steps of the engine: one more event.
Event(d) ==
    /\ phase # "done"
    /\ upEvents < MaxEvents
    /\ upEvents' = upEvents + 1
    /\ sawDelta' = (sawDelta \/ d # <<>>)
    /\ emittedRole' = (emittedRole \/ RoleChunks(emittedRole, d) # <<>>)
    /\ UNCHANGED << upAnswer, showThinking >>
    /\ UNCHANGED notStream

\* An event of the phase thinking with the delta d.
ThinkingDelta(d) ==
    /\ Event(d)
    /\ IF d = <<>> \/ phase \in {"tool_emitting"}
       THEN UNCHANGED << phase, thinkingBuffer, emitted >>
       ELSE /\ phase' = "thinking"
            /\ thinkingBuffer' = thinkingBuffer \o d
            /\ emitted' = emitted \o RoleChunks(emittedRole, d)
                          \o (IF showThinking THEN << ReasoningChunk(d) >> ELSE <<>>)
    /\ UNCHANGED << upSent, answerBuffer, sentContent, finishReason >>

\* What an answer delta d does to the state of the stream: buffer is the
\* cumulative answer, tail the part of its visible text not emitted yet,
\* calls the tool calls found in it.
AnswerStep(d, buffer, tail, calls) ==
    IF d = <<>> \/ phase \in {"tool_emitting"}
    THEN UNCHANGED << phase, answerBuffer, sentContent, finishReason, emitted >>
    ELSE /\ answerBuffer' = buffer
         /\ sentContent' = sentContent \o tail
         /\ phase' = IF calls # <<>> THEN "tool_emitting" ELSE "answering"
         /\ finishReason' = IF calls # <<>> THEN "tool_calls" ELSE finishReason
         /\ emitted' = emitted \o RoleChunks(emittedRole, d)
                       \o (IF tail # <<>> THEN << ContentChunk(tail) >> ELSE <<>>)
                       \o ToolCallBlock(calls, 1)

\* An event of the phase answer whose delta is the answer up to the place n.
AnswerDelta(n) ==
    LET d == SubSeq(upAnswer, upSent + 1, n)
    IN  /\ n >= upSent
        /\ Event(d)
        /\ upSent' = n
        /\ AnswerStep(d, answerBuffer \o d,
                      VisibleTail(RemoveToolJSONContent(answerBuffer \o d), sentContent),
                      ExtractToolInvocations(answerBuffer \o d, "1"))
        /\ UNCHANGED thinkingBuffer

\* An event of the phase tool_call with the delta d: the calls are those of
\* the cumulative answer.
ToolCallStep(d, calls) ==
    IF phase = "tool_emitting" \/ (phase = "init" /\ d = <<>>)
    THEN UNCHANGED << phase, finishReason, emitted >>
    ELSE /\ phase' = "tool_emitting"
         /\ finishReason' = "tool_calls"
         /\ emitted' = emitted \o RoleChunks(emittedRole, d) \o ToolCallBlock(calls, 1)

ToolCallDelta(d) ==
    /\ Event(d)
    /\ ToolCallStep(d, ExtractToolInvocations(answerBuffer, "1"))
    /\ UNCHANGED << upSent, answerBuffer, thinkingBuffer, sentContent >>

\* An event of the phase other with the delta d.
OtherDelta(d) ==
    /\ Event(d)
    /\ emitted' = emitted \o RoleChunks(emittedRole, d)
    /\ UNCHANGED << upSent, phase, answerBuffer, thinkingBuffer, sentContent,
                    finishReason >>

\* The terminator of the upstream, data: [DONE] or done=true; truncated
\* tells that the upstream stopped at its length limit.
StreamDone(truncated) ==
    LET reason == IF finishReason # "" THEN finishReason
                  ELSE IF truncated THEN "length" ELSE "stop"
    IN  /\ phase # "done"
        /\ phase' = "done"
        /\ finishReason' = reason
        /\ emitted' = emitted \o << FinishChunk(reason), DoneLine >>
        /\ UNCHANGED << upAnswer, upSent, upEvents, sawDelta, showThinking, emittedRole,
                        answerBuffer, thinkingBuffer, sentContent >>
        /\ UNCHANGED notStream

\* No response is streamed.
StreamIdle ==
    /\ upAnswer = <<>>
    /\ upSent = 0
    /\ upEvents = 0
    /\ sawDelta = FALSE
    /\ showThinking = FALSE
    /\ phase = "done"
    /\ emittedRole = FALSE
    /\ answerBuffer = <<>>
    /\ thinkingBuffer = <<>>
    /\ sentContent = <<>>
    /\ finishReason = ""
    /\ emitted = <<>>

\* The engine of a response before the first event of the upstream.
StreamInit ==
    /\ upAnswer \in Answers
    /\ upSent = 0
    /\ upEvents = 0
    /\ sawDelta = FALSE
    /\ showThinking \in BOOLEAN
    /\ phase = "init"
    /\ emittedRole = FALSE
    /\ answerBuffer = <<>>
    /\ thinkingBuffer = <<>>
    /\ sentContent = <<>>
    /\ finishReason = ""
    /\ emitted = <<>>

\* ------------------------------------------------------- the media uploader
\* The image URLs and the video URLs of a batch, at most.
MaxImages == 2

MaxVideos == 1

\* The first bytes of the payloads: a PNG, a JPEG, a GIF, a WebP, a BMP, an
\* MP4, a WebM, a text, a WAV (RIFF, not WebP) and a PNG cut after its
\* eight-byte signature.
PayloadPNG == << 137, 80, 78, 71, 13, 10, 26, 10, 0, 0, 0, 13 >>

PayloadJPEG == << 255, 216, 255, 224, 0, 16, 74, 70, 73, 70, 0, 1 >>

PayloadGIF == << 71, 73, 70, 56, 57, 97, 1, 0, 1, 0, 0, 0 >>

PayloadWebP == << 82, 73, 70, 70, 36, 0, 0, 0, 87, 69, 66, 80 >>

PayloadBMP == << 66, 77, 70, 0, 0, 0, 0, 0, 0, 0, 54, 0 >>

PayloadMP4 == << 0, 0, 0, 24, 102, 116, 121, 112, 105, 115, 111, 109 >>

PayloadWebM == << 26, 69, 223, 163, 1, 0, 0, 0, 0, 0, 0, 31 >>

PayloadText == << 104, 101, 108, 108, 111, 32, 119, 111, 114, 108, 100, 33 >>

PayloadWAV == << 82, 73, 70, 70, 36, 0, 0, 0, 87, 65, 86, 69 >>

PayloadShortPNG == << 137, 80, 78, 71, 13, 10, 26, 10 >>

Payloads ==
    { PayloadPNG, PayloadJPEG, PayloadGIF, PayloadWebP, PayloadBMP, PayloadMP4,
      PayloadWebM, PayloadText, PayloadWAV, PayloadShortPNG }

\* data[k] of the Go code is data[k + 1] here.
isValidMediaMagicBytes_Any(data) == TRUE

isValidMediaMagicBytes(data) ==
    IF Len(data) < 12 THEN FALSE
    ELSE \/ data[1] = 137 /\ data[2] = 80 /\ data[3] = 78 /\ data[4] = 71
         \/ data[1] = 255 /\ data[2] = 216 /\ data[3] = 255
         \/ data[1] = 71 /\ data[2] = 73 /\ data[3] = 70 /\ data[4] = 56
         \/ /\ data[1] = 82 /\ data[2] = 73 /\ data[3] = 70 /\ data[4] = 70
            /\ Len(data) > 11
            /\ data[9] = 87 /\ data[10] = 69 /\ data[11] = 66 /\ data[12] = 80
         \/ data[1] = 66 /\ data[2] = 77
         \/ /\ Len(data) > 11
            /\ data[5] = 102 /\ data[6] = 116 /\ data[7] = 121 /\ data[8] = 112
         \/ data[1] = 26 /\ data[2] = 69 /\ data[3] = 223 /\ data[4] = 163

\* A media URL and what the world answers for it: a data: URI or an http(s)
\* URL; whether it is a multimedia.nt.qq.com.cn/download link, and the
\* length of its query (-1 without one) and whether the query has an "&";
\* whether its base64 decodes, or its GET answers 200 with a body; the MIME
\* type of its header; its payload; whether the file endpoint accepts it.
MediaURL(scheme, qq, queryLen, queryAmp, fetchOK, mime, payload, uploadOK) ==
    [scheme |-> scheme, qq |-> qq, queryLen |-> queryLen, queryAmp |-> queryAmp,
     fetchOK |-> fetchOK, mime |-> mime, payload |-> payload, uploadOK |-> uploadOK]

NoURL == [scheme |-> "none"]

NoFile == [Status |-> "nil"]

NoErr == "nil"

ErrRequestFailed == "ErrRequestFailed"

MediaTypes == {"image", "video"}

\* The MIME types of the model that start with video/.
VideoMimes == {"video/mp4"}

detectMediaType(contentType) == IF contentType \in VideoMimes THEN "video" ELSE "image"

isUnsupportedMediaURL(u) ==
    u.qq /\ u.queryLen >= 0 /\ (u.queryLen < 20 \/ ~u.queryAmp)

\* parseBase64Data: the bytes and the MIME type of a data: URI.
parseBase64Data(u) ==
    IF ~u.fetchOK THEN [data |-> <<>>, contentType |-> "", err |-> ErrRequestFailed]
    ELSE [data |-> u.payload, contentType |-> u.mime, err |-> NoErr]

\* downloadFromURL: the body and the Content-Type of the response, if the
\* status is 200 and the body is a media file by its first bytes.
downloadFromURL(u) ==
    IF ~u.fetchOK THEN [data |-> <<>>, contentType |-> "", err |-> ErrRequestFailed]
    ELSE IF ~isValidMediaMagicBytes(u.payload)
    THEN [data |-> <<>>, contentType |-> "", err |-> ErrRequestFailed]
    ELSE [data |-> u.payload, contentType |-> u.mime, err |-> NoErr]

\* UploadMedia: the file, the error and the POSTs to the file endpoint.
UploadMedia(u, mediaType) ==
    IF isUnsupportedMediaURL(u) THEN [file |-> NoFile, err |-> NoErr, posts |-> <<>>]
    ELSE LET got == IF u.scheme = "data" THEN parseBase64Data(u) ELSE downloadFromURL(u)
             contentType ==
                 IF got.contentType = "" /\ u.scheme = "data"
                 THEN (IF mediaType = "video" THEN "video/mp4" ELSE "image/png")
                 ELSE got.contentType
             kind == IF contentType # "" THEN detectMediaType(contentType) ELSE mediaType
         IN  IF got.err # NoErr THEN [file |-> NoFile, err |-> got.err, posts |-> <<>>]
             ELSE IF ~u.uploadOK
             THEN [file |-> NoFile, err |-> ErrRequestFailed, posts |-> << u >>]
             ELSE [file |-> [Source |-> u, Type |-> kind, Media |-> kind,
                             Status |-> "uploaded"],
                   err |-> NoErr, posts |-> << u >>]

\* The loop of UploadImages and of UploadVideos: a failed upload and a
\* skipped URL are passed over.
RECURSIVE UploadAll_Abort(_, _)
UploadAll_Abort(urls, mediaType) ==
    IF urls = <<>> THEN [files |-> <<>>, posts |-> <<>>]
    ELSE LET r == UploadMedia(urls[1], mediaType)
             rest == UploadAll_Abort(Tail(urls), mediaType)
         IN  IF r.err # NoErr THEN [files |-> <<>>, posts |-> r.posts]
             ELSE [files |-> (IF r.file = NoFile THEN <<>> ELSE << r.file >>) \o rest.files,
                   posts |-> r.posts \o rest.posts]

RECURSIVE UploadAll(_, _)
UploadAll(urls, mediaType) ==
    IF urls = <<>> THEN [files |-> <<>>, posts |-> <<>>]
    ELSE LET r == UploadMedia(urls[1], mediaType)
             rest == UploadAll(Tail(urls), mediaType)
         IN  [files |-> (IF r.err # NoErr \/ r.file = NoFile THEN <<>> ELSE << r.file >>)
                        \o rest.files,
              posts |-> r.posts \o rest.posts]

UploadImages(urls) == UploadAll(urls, "image")

UploadVideos(urls) == UploadAll(urls, "video")

\* The URLs of a single upload: every scheme, payload and answer.
AllURLs ==
    {MediaURL(scheme, FALSE, -1, FALSE, fetchOK, mime, payload, uploadOK) :
        scheme \in {"data", "http"}, fetchOK \in BOOLEAN,
        mime \in {"", "image/png", "video/mp4"}, payload \in Payloads,
        uploadOK \in BOOLEAN}
    \cup {MediaURL("http", TRUE, q[1], q[2], TRUE, "image/png", payload, TRUE) :
            q \in { << -1, FALSE >>, << 9, FALSE >>, << 12, TRUE >>, << 30, FALSE >>,
                    << 30, TRUE >> },
            payload \in {PayloadPNG, PayloadText}}

\* The URLs of a batch.
BatchURLs ==
    { MediaURL("data", FALSE, -1, FALSE, TRUE, "image/png", PayloadPNG, TRUE),
      MediaURL("data", FALSE, -1, FALSE, FALSE, "", PayloadPNG, TRUE),
      MediaURL("http", FALSE, -1, FALSE, TRUE, "video/mp4", PayloadMP4, TRUE),
      MediaURL("http", FALSE, -1, FALSE, FALSE, "", PayloadPNG, TRUE),
      MediaURL("http", FALSE, -1, FALSE, TRUE, "text/html", PayloadText, TRUE),
      MediaURL("http", TRUE, 9, FALSE, TRUE, "image/png", PayloadPNG, TRUE),
      MediaURL("http", FALSE, -1, FALSE, TRUE, "image/png", PayloadJPEG, FALSE) }

RECURSIVE URLLists(_)
URLLists(n) ==
    IF n = 0 THEN { <<>> }
    ELSE URLLists(n - 1)
         \cup {Append(l, u) : l \in {k \in URLLists(n - 1) : Len(k) = n - 1},
                              u \in BatchURLs}

\* A caller uploads the one medium of a message.
UploadOne ==
    /\ upLast = "none"
    /\ mediaURL # NoURL
    /\ LET r == UploadMedia(mediaURL, mediaKind)
       IN  /\ uploadResult' = << [file |-> r.file, err |-> r.err] >>
           /\ posted' = r.posts
    /\ upLast' = "media"
    /\ UNCHANGED << mediaURL, mediaKind, imageURLs, videoURLs >>
    /\ UNCHANGED notUpload

\* UploadMediaFiles: the images, then the videos.
UploadMediaFiles ==
    /\ upLast = "none"
    /\ mediaURL = NoURL
    /\ LET images == UploadImages(imageURLs)
           videos == UploadVideos(videoURLs)
       IN  /\ uploadResult' = << [images |-> images.files, videos |-> videos.files,
                                  err |-> NoErr] >>
           /\ posted' = images.posts \o videos.posts
    /\ upLast' = "batch"
    /\ UNCHANGED << mediaURL, mediaKind, imageURLs, videoURLs >>
    /\ UNCHANGED notUpload

\* No upload.
UploadIdle ==
    /\ mediaURL = NoURL
    /\ mediaKind = "image"
    /\ imageURLs = <<>>
    /\ videoURLs = <<>>
    /\ posted = <<>>
    /\ uploadResult = <<>>
    /\ upLast = "none"

\* A single URL to upload, or a batch of URLs.
UploadInit ==
    /\ \/ /\ mediaURL \in AllURLs
          /\ mediaKind \in MediaTypes
          /\ imageURLs = <<>>
          /\ videoURLs = <<>>
       \/ /\ mediaURL = NoURL
          /\ mediaKind = "image"
          /\ imageURLs \in URLLists(MaxImages)
          /\ videoURLs \in URLLists(MaxVideos)
    /\ posted = <<>>
    /\ uploadResult = <<>>
    /\ upLast = "none"

\* ------------------------------------------------------------ RecordCall
\* The calls the model records, at most.
MaxCalls == 1

\* atomic.AddInt64(addr, delta): the new value of the counter.  The counter
\* has 64 bits and grows by one per call, so the model stays far from 2^63.
AddInt64_Sub(counter, delta) == counter - delta

AddInt64(counter, delta) == counter + delta

\* RecordCall: three atomic additions, each of which no concurrent call can
\* interleave with; additions commute, so the call is one step.
RecordCall(success, isMultimodal) ==
    /\ totalCalls < MaxCalls
    /\ totalCalls' = AddInt64(totalCalls, 1)
    /\ successCalls' = IF success THEN AddInt64(successCalls, 1) ELSE successCalls
    /\ multimodalCount' = IF isMultimodal THEN AddInt64(multimodalCount, 1)
                          ELSE multimodalCount
    /\ UNCHANGED notStats

\* The counters of the TokenManager GetTokenManager constructs.
StatIdle ==
    /\ totalCalls = 0
    /\ successCalls = 0
    /\ multimodalCount = 0

\* ------------------------------------------------------------ Stop
\* Stop closes stopChan and the fsnotify watcher.
Stop ==
    /\ started
    /\ ~stopped
    /\ stopped' = TRUE
    /\ UNCHANGED << feVersion, versionFetches >>
    /\ UNCHANGED notTasks

\* The select of startWatcher takes the stopChan case (or finds the Events
\* channel closed): the goroutine returns.
WatcherExit ==
    /\ UNCHANGED notPool
    /\ stopped
    /\ wpc = "wait"
    /\ wpc' = "exit"
    /\ last' = "other"
    /\ ret' = NoCall
    /\ UNCHANGED << file, invalidFile, tokens, validTokens, currentIndex, started, pending,
                    vpc, vTodo, invalidCount, passes, recent, probedDead, probedAlive, edits >>

\* The select of startValidator takes the stopChan case: the goroutine
\* returns.  The select is reached after the first pass only.
ValidatorExit ==
    /\ UNCHANGED notPool
    /\ stopped
    /\ vpc = "idle"
    /\ passes >= 1
    /\ vpc' = "exit"
    /\ last' = "other"
    /\ ret' = NoCall
    /\ UNCHANGED << file, invalidFile, tokens, validTokens, currentIndex, started, pending,
                    wpc, vTodo, invalidCount, passes, recent, probedDead, probedAlive, edits >>

\* fetchFeVersion, which StartVersionUpdater calls once and then at every tick
\* of its ticker: the page was fetched and held a version (match) or not.
fetchFeVersion(match) ==
    /\ versionFetches < MaxFetches
    /\ versionFetches' = versionFetches + 1
    /\ feVersion' = IF match = "" THEN feVersion ELSE match
    /\ UNCHANGED stopped
    /\ UNCHANGED notTasks

\* The background tasks before main starts them.
TaskIdle ==
    /\ stopped = FALSE
    /\ feVersion = ""
    /\ versionFetches = 0

\* ------------------------------------------------------------ RecordCall and GetStats, step by step
\* The calls of RecordCall a run makes at most.
MaxRecorded == 2

\* What a step of RecordCall or of GetStats leaves as it is.
notCalls == << poolVars, toolVars, msgVars, regVars, cntVars, streamVars, uploadVars, taskVars, rpmVars, heapVars >>

notHeap == << poolVars, toolVars, msgVars, regVars, cntVars, streamVars, uploadVars, statVars, taskVars, snapVars, rpmVars >>

\* RecordCall, first addition: totalCalls.
RecordTotal(success, isMultimodal) ==
    /\ callPc = "idle"
    /\ totalCalls < MaxRecorded
    /\ totalCalls' = AddInt64(totalCalls, 1)
    /\ callArgs' = [success |-> success, isMultimodal |-> isMultimodal]
    /\ callPc' = "success"
    /\ UNCHANGED << successCalls, multimodalCount, statPc, snapshot >>
    /\ UNCHANGED notCalls

\* RecordCall, second addition: successCalls, if the call succeeded.
RecordSuccess ==
    /\ callPc = "success"
    /\ successCalls' = IF callArgs.success THEN AddInt64(successCalls, 1) ELSE successCalls
    /\ callPc' = "multimodal"
    /\ UNCHANGED << totalCalls, multimodalCount, callArgs, statPc, snapshot >>
    /\ UNCHANGED notCalls

\* RecordCall, third addition: multimodalCount, if the call was multimodal.
RecordMultimodal ==
    /\ callPc = "multimodal"
    /\ multimodalCount' = IF callArgs.isMultimodal THEN AddInt64(multimodalCount, 1)
                          ELSE multimodalCount
    /\ callPc' = "idle"
    /\ UNCHANGED << totalCalls, successCalls, callArgs, statPc, snapshot >>
    /\ UNCHANGED notCalls

NoSnapshot == [TotalCalls |-> 0, SuccessCalls |-> 0, MultimodalCount |-> 0]

\* GetStats, first load: totalCalls. The read lock it holds keeps no
\* RecordCall out, which takes no lock.
LoadTotal ==
    /\ statPc \in {"idle", "done"}
    /\ snapshot' = [NoSnapshot EXCEPT !.TotalCalls = totalCalls]
    /\ statPc' = "success"
    /\ UNCHANGED << statVars, callPc, callArgs >>
    /\ UNCHANGED notCalls

\* GetStats, second load: successCalls.
LoadSuccess ==
    /\ statPc = "success"
    /\ snapshot' = [snapshot EXCEPT !.SuccessCalls = successCalls]
    /\ statPc' = "multimodal"
    /\ UNCHANGED << statVars, callPc, callArgs >>
    /\ UNCHANGED notCalls

\* GetStats, third load: multimodalCount; then it returns the snapshot.
LoadMultimodal ==
    /\ statPc = "multimodal"
    /\ snapshot' = [snapshot EXCEPT !.MultimodalCount = multimodalCount]
    /\ statPc' = "done"
    /\ UNCHANGED << statVars, callPc, callArgs >>
    /\ UNCHANGED notCalls

\* No RecordCall and no GetStats is in progress.
SnapIdle ==
    /\ callPc = "idle"
    /\ callArgs = [success |-> FALSE, isMultimodal |-> FALSE]
    /\ statPc = "idle"
    /\ snapshot = NoSnapshot

\* ------------------------------------------------------------ the request telemetry
\* The ticks of the clock a run sees, and the requests it records.
MaxTime == 4

MaxRequests == 3

\* time.Minute, in ticks of the clock.
Window == 2

\* Time passes.
Tick ==
    /\ clock < MaxTime
    /\ clock' = clock + 1
    /\ rpmLast' = "tick"
    /\ UNCHANGED << requestTimes, TotalRequests, reqPc, rpm >>
    /\ UNCHANGED notRpm

\* RecordRequest, the atomic additions before the lock is taken.
RecordRequestCount ==
    /\ reqPc = "idle"
    /\ TotalRequests < MaxRequests
    /\ TotalRequests' = AddInt64(TotalRequests, 1)
    /\ reqPc' = "counted"
    /\ rpmLast' = "count"
    /\ UNCHANGED << clock, requestTimes, rpm >>
    /\ UNCHANGED notRpm

\* RecordRequest, under the lock: the time is appended to requestTimes.
RecordRequestAppend ==
    /\ reqPc = "counted"
    /\ requestTimes' = Append(requestTimes, clock)
    /\ reqPc' = "idle"
    /\ rpmLast' = "append"
    /\ UNCHANGED << clock, TotalRequests, rpm >>
    /\ UNCHANGED notRpm

After_OrEqual(t, u) == t >= u

\* Time.After.
After(t, u) == t > u

\* GetRPM, under the lock: the times after the cutoff are kept and counted.
GetRPM ==
    LET cutoff == clock - Window
        validTimes == SelectSeq(requestTimes, LAMBDA t : After(t, cutoff))
    IN  /\ requestTimes' = validTimes
        /\ rpm' = Len(validTimes)
        /\ rpmLast' = "get"
        /\ UNCHANGED << clock, TotalRequests, reqPc >>
        /\ UNCHANGED notRpm

\* The telemetry as the package constructs it.
RpmIdle ==
    /\ clock = 0
    /\ requestTimes = <<>>
    /\ TotalRequests = 0
    /\ reqPc = "idle"
    /\ rpm = 0
    /\ rpmLast = "none"

\* ------------------------------------------------------------ the system
Init == PoolInit /\ ToolIdle /\ MsgIdle /\ RegIdle /\ CntIdle /\ StreamIdle /\ UploadIdle /\ StatIdle /\ TaskIdle /\ SnapIdle /\ RpmIdle /\ HeapIdle

\* The steps of the program and of a user who only adds lines.
NextAppendOnly ==
    \/ \E l \in UserLines : UserAppend(l)
    \/ Start
    \/ WatcherEvent
    \/ WatcherReload
    \/ StartPass
    \/ \E t \in Tokens, alive \in BOOLEAN, claims \in BOOLEAN :
          (claims => DecodeJWTPayload(t).ok) /\ ValidateOne(t, alive, claims)
    \/ rebuildValidTokens
    \/ removeInvalidTokens
    \/ GetToken

Next ==
    \/ NextAppendOnly
    \/ \E i \in 1..(Len(ExampleFile) + MaxEdits) : UserRemove(i)

Spec == Init /\ [][Next]_vars

\* The pool and the call counters: handlers record calls while the pool runs.
NextStats ==
    \/ Next
    \/ \E success \in BOOLEAN, isMultimodal \in BOOLEAN : RecordCall(success, isMultimodal)

InitStats == Init /\ file = << Raw("a"), Raw("b"), Raw("c") >>

SpecStats == InitStats /\ [][NextStats]_vars

\* One goroutine that calls RecordCall again and again and one that calls
\* GetStats, the pool not started.
NextSnapshot ==
    \/ \E success \in BOOLEAN, isMultimodal \in BOOLEAN : RecordTotal(success, isMultimodal)
    \/ RecordSuccess
    \/ RecordMultimodal
    \/ LoadTotal
    \/ LoadSuccess
    \/ LoadMultimodal

InitSnapshot == Init /\ file = Missing

SpecSnapshot == InitSnapshot /\ [][NextSnapshot]_vars

\* The telemetry: requests recorded and the RPM read while time passes.
NextTelemetry ==
    \/ Tick
    \/ RecordRequestCount
    \/ RecordRequestAppend
    \/ GetRPM

InitTelemetry == Init /\ file = Missing

SpecTelemetry == InitTelemetry /\ [][NextTelemetry]_vars

\* The background tasks main starts, and Stop: the validator and the watcher
\* of the pool, the model fetcher, the version updater.
InitTasks == Init /\ file = << Raw("a"), KeyValue("a"), Raw("b") >>

NextTasks ==
    \/ Start
    \/ WatcherEvent
    \/ WatcherReload
    \/ WatcherExit
    \/ StartPass
    \/ \E t \in Tokens, alive \in BOOLEAN : ValidateOne(t, alive, FALSE)
    \/ rebuildValidTokens
    \/ removeInvalidTokens
    \/ ValidatorExit
    \/ initBuiltinMappings
    \/ \E models \in FetchedLists(1) : updateDynamicMappings(models)
    \/ \E match \in {"", "prod-fe-1"} : fetchFeVersion(match)
    \/ Stop

SpecTasks == InitTasks /\ [][NextTasks]_vars

\* The pool with a user who appends lines to tokens.txt and removes none.
SpecAppendOnly == Init /\ [][NextAppendOnly]_vars

\* The tool layer handling one response, the pool not started.
InitTools == PoolInit /\ file = Missing /\ ToolInit /\ MsgIdle /\ RegIdle /\ CntIdle /\ StreamIdle /\ UploadIdle /\ StatIdle /\ TaskIdle /\ SnapIdle /\ RpmIdle /\ HeapIdle

NextTools == Extract \/ Strip

SpecTools == InitTools /\ [][NextTools]_vars

\* The tool layer handling one response whose tool_calls object gives the id,
\* the type and the arguments of its calls in every way.
InitCalls == PoolInit /\ file = Missing /\ CallsInit /\ MsgIdle /\ RegIdle /\ CntIdle /\ StreamIdle /\ UploadIdle /\ StatIdle /\ TaskIdle /\ SnapIdle /\ RpmIdle /\ HeapIdle

SpecCalls == InitCalls /\ [][NextTools]_vars

\* The tool layer handling one response that writes calls in several forms.
InitPriority == PoolInit /\ file = Missing /\ MixedInit /\ MsgIdle /\ RegIdle /\ CntIdle /\ StreamIdle /\ UploadIdle /\ StatIdle /\ TaskIdle /\ SnapIdle /\ RpmIdle /\ HeapIdle

SpecPriority == InitPriority /\ [][NextTools]_vars

\* The tool layer handling one response that is about as long as the scan limit.
InitScan == PoolInit /\ file = Missing /\ LongInit /\ MsgIdle /\ RegIdle /\ CntIdle /\ StreamIdle /\ UploadIdle /\ StatIdle /\ TaskIdle /\ SnapIdle /\ RpmIdle /\ HeapIdle

SpecScan == InitScan /\ [][NextTools]_vars

\* The tool layer handling one response with braces inside JSON strings.
InitBraces == PoolInit /\ file = Missing /\ BraceInit /\ MsgIdle /\ RegIdle /\ CntIdle /\ StreamIdle /\ UploadIdle /\ StatIdle /\ TaskIdle /\ SnapIdle /\ RpmIdle /\ HeapIdle

SpecBraces == InitBraces /\ [][NextTools]_vars

\* The tool layer handling one response whose object has the key tool_calls
\* with or without calls.
InitKeyed == PoolInit /\ file = Missing /\ KeyedInit /\ MsgIdle /\ RegIdle /\ CntIdle /\ StreamIdle /\ UploadIdle /\ StatIdle /\ TaskIdle /\ SnapIdle /\ RpmIdle /\ HeapIdle

SpecKeyed == InitKeyed /\ [][NextTools]_vars

\* The request translator handling one request, the pool not started.
InitMessages == PoolInit /\ file = Missing /\ ToolIdle /\ MsgInit /\ RegIdle /\ CntIdle /\ StreamIdle /\ UploadIdle /\ StatIdle /\ TaskIdle /\ SnapIdle /\ RpmIdle /\ HeapIdle

NextMessages == Translate

SpecMessages == InitMessages /\ [][NextMessages]_vars

\* The request translator handling one request whose messages are in memory.
InitMemory == PoolInit /\ file = Missing /\ ToolIdle /\ MsgInit /\ RegIdle /\ CntIdle /\ StreamIdle /\ UploadIdle /\ StatIdle /\ TaskIdle /\ SnapIdle /\ RpmIdle /\ HeapInit

NextMemory == TranslateInMemory

SpecMemory == InitMemory /\ [][NextMemory]_vars

\* The registry, the pool not started.
InitRegistry == PoolInit /\ file = Missing /\ ToolIdle /\ MsgIdle /\ RegIdle /\ CntIdle /\ StreamIdle /\ UploadIdle /\ StatIdle /\ TaskIdle /\ SnapIdle /\ RpmIdle /\ HeapIdle

NextRegistry ==
    \/ initBuiltinMappings
    \/ \E models \in FetchedLists(MaxFetched) : updateDynamicMappings(models)
    \/ \E modelID \in RequestedNames : GetModelMapping(modelID)
    \/ GetAvailableModels

SpecRegistry == InitRegistry /\ [][NextRegistry]_vars

\* The token counter counting one text and its two parts.
InitCounter == PoolInit /\ file = Missing /\ ToolIdle /\ MsgIdle /\ RegIdle /\ CntInit /\ StreamIdle /\ UploadIdle /\ StatIdle /\ TaskIdle /\ SnapIdle /\ RpmIdle /\ HeapIdle

NextCounter == CountAll

SpecCounter == InitCounter /\ [][NextCounter]_vars

\* The streaming engine handling one response of the upstream.
InitStream ==
    PoolInit /\ file = Missing /\ ToolIdle /\ MsgIdle /\ RegIdle /\ CntIdle /\ StreamInit /\ UploadIdle /\ StatIdle /\ TaskIdle /\ SnapIdle /\ RpmIdle /\ HeapIdle

NextStream ==
    \/ \E d \in { <<>>, << "hm" >> } : ThinkingDelta(d)
    \/ \E n \in CutsOf(upAnswer) : AnswerDelta(n)
    \/ \E d \in { <<>>, << "x" >> } : ToolCallDelta(d)
    \/ \E d \in { <<>>, << "x" >> } : OtherDelta(d)
    \/ \E truncated \in BOOLEAN : StreamDone(truncated)

SpecStream == InitStream /\ [][NextStream]_vars

\* The media uploader handling one upload or one batch.
InitUpload ==
    PoolInit /\ file = Missing /\ ToolIdle /\ MsgIdle /\ RegIdle /\ CntIdle /\ StreamIdle /\ UploadInit /\ StatIdle /\ TaskIdle /\ SnapIdle /\ RpmIdle /\ HeapIdle

NextUpload == UploadOne \/ UploadMediaFiles

SpecUpload == InitUpload /\ [][NextUpload]_vars

\* ------------------------------------------------------------ the claims
\* Whether credential t stands on a line of the file f, raw or as
\* token=<credential>.
OnALine(t, f) == \E i \in 1..Len(f) : f[i] = Raw(t) \/ f[i] = KeyValue(t)

\* The credentials on the lines of f, each once, in the order of their first line.
RECURSIVE CredentialsOf(_)
CredentialsOf(f) ==
    IF f = <<>> THEN <<>>
    ELSE LET r == CredentialsOf(SubSeq(f, 1, Len(f) - 1))
             l == f[Len(f)]
         IN  IF l.prefix \in {"", "token="} /\ l.body \in Tokens /\ l.body \notin Range(r)
             THEN Append(r, l.body) ELSE r

\* Whether credential t is in tokens_invalid.txt.
Quarantined(t) == \E i \in 1..Len(invalidFile) : t \in invalidFile[i]

ValidKeys == {t \in DOMAIN tokens : tokens[t].Valid}

\* C1: while the ring holds N >= 1 credentials and does not change, any M
\* consecutive GetToken calls return each credential of the ring floor(M/N)
\* or ceil(M/N) times.
C1_PoolRotation ==
    LET N == Cardinality(Range(validTokens))
    IN  N >= 1 =>
          \A M \in 0..Len(recent) : \A t \in Range(validTokens) :
              LET c == Count(t, LastK(recent, M))
              IN  c = M \div N \/ c = (M + N - 1) \div N

\* C2: in every reachable state no credential whose record has Valid = FALSE
\* is in the ring, and GetToken never returns a credential whose record is
\* marked invalid.
C2_NoInvalidInRing ==
    /\ \A t \in DOMAIN tokens : ~tokens[t].Valid => t \notin Range(validTokens)
    /\ (last = "get" /\ ret \in DOMAIN tokens) => tokens[ret].Valid

\* C3: after every completed loadTokens, rebuildValidTokens and
\* removeInvalidTokens the set of credentials in the ring is the set of map
\* keys whose record has Valid = TRUE.
C3_RingIsProjection ==
    last \in {"load", "rebuild", "remove"} => Range(validTokens) = ValidKeys

\* A reload completed in the middle of a validation pass that has marked a
\* record invalid.
C3_Witness ==
    /\ last = "load"
    /\ vpc = "probe"
    /\ \E t \in DOMAIN tokens : ~tokens[t].Valid

\* C4: on an empty ring GetToken returns the empty credential and leaves the
\* cursor and every use-count as they are; on a non-empty ring it returns a
\* non-empty credential.
C4_EmptyRing ==
    [][ last' = "get" =>
          IF validTokens = <<>>
          THEN ret' = "" /\ currentIndex' = currentIndex /\ tokens' = tokens
          ELSE ret' # "" /\ ret' \in Range(validTokens) ]_vars

\* GetToken was called on an empty ring while the map holds records.
C4_Witness ==
    /\ last = "get"
    /\ ret = ""
    /\ DOMAIN tokens # {}

\* C5: a reload leaves the record of every credential that is in the map and
\* on a line of the file as it is, gives every credential on a line that was
\* not in the map a record with Valid = TRUE and use-count 0 and puts it on
\* the ring, and leaves no credential that is on no line in the map or ring.
C5_ReloadPreservation ==
    [][ last' = "load" =>
          \A t \in Tokens :
              IF OnALine(t, file)
              THEN /\ t \in DOMAIN tokens'
                   /\ t \in DOMAIN tokens => tokens'[t] = tokens[t]
                   /\ t \notin DOMAIN tokens =>
                         /\ tokens'[t].Valid
                         /\ tokens'[t].UseCount = 0
                         /\ t \in Range(validTokens')
              ELSE t \notin DOMAIN tokens' /\ t \notin Range(validTokens') ]_vars

\* A reload, after a finished pass, kept a record that has been used and
\* checked, and made a record for a credential that was not in the map.
C5_Witness ==
    /\ last = "load"
    /\ vpc = "idle"
    /\ passes >= 1
    /\ \E t \in DOMAIN tokens : tokens[t].UseCount > 0 /\ tokens[t].LastChecked >= 1
    /\ \E u \in DOMAIN tokens : tokens[u].UseCount = 0 /\ tokens[u].LastChecked = 0

\* A validation pass has just returned.
PassFinished == last = "remove" \/ (last = "rebuild" /\ vpc = "idle")

ReloadedRing(f, m) == ScanLines(f, m, EmptyMap, <<>>).validTokens

\* The credentials of the pool that outlive the quarantine of the records
\* marked invalid in m, in the order of their first line in the file f.
Survivors(f, m) ==
    SelectSeq(CredentialsOf(f), LAMBDA t : t \in DOMAIN m /\ m[t].Valid)

\* C7: when a pass has marked credentials dead and rewritten tokens.txt, a
\* reload from the rewritten file gives a ring of exactly the surviving
\* credentials, in the order they had in the tokens.txt that was replaced.
C7_QuarantineIdempotence ==
    [][ (last' = "remove" /\ file' # file) =>
          ReloadedRing(file', tokens') = Survivors(file, tokens) ]_vars

\* C8: a credential on a line of tokens.txt that the pool has not loaded yet
\* is never dropped from the file before the pool holds it.
C8_HotReload ==
    [][ \A t \in Tokens :
          (OnALine(t, file) /\ t \notin DOMAIN tokens) =>
              (OnALine(t, file') \/ t \in DOMAIN tokens') ]_vars

\* The one call of the payload: id a, type function, name f, arguments the
\* JSON string {"x":1}.
ExpectedCall ==
    [ID |-> << "a" >>, Type |-> << "function" >>, Name |-> << "f" >>,
     Arguments |-> << "{", Q, "x", Q, ":", "1", "}" >>]

\* C9: for the payload whose arguments are the JSON object {"x":1},
\* ExtractToolInvocations returns exactly one call, with name f, id a and
\* the JSON string of the object as arguments, the same whether the payload
\* is in a json fence, inline after the text or nested in a longer object.
C9_RoundTrip ==
    (extracted /\ wrapping \in {"fence", "inline", "nested"}) =>
        toolCalls = << ExpectedCall >>

\* The call was extracted from a payload nested in a longer object that
\* follows a visible text with a brace and a quote of its own.
C9_Witness ==
    /\ extracted
    /\ wrapping = "nested"
    /\ visible = << "hi", "{", Q >>
    /\ toolCalls = << ExpectedCall >>

\* C10: for a visible text without tool-call JSON, composed with a json
\* fence that holds a tool_calls object, RemoveToolJSONContent gives the
\* trimmed visible text, and nothing of the fenced tool JSON remains.
C10_ContentStripping ==
    (stripped /\ wrapping = "fence") =>
        /\ cleaned = TrimSpace(visible)
        /\ "tool_calls" \notin Range(cleaned)

\* Whether the text is one JSON value.
IsJSON(s) == Unmarshal(s).ok

\* C11: every ToolCall that ExtractToolInvocations returns has arguments that
\* are a non-empty JSON text: a serialized object or array, a trimmed string,
\* or {} for an empty, null or absent value.
C11_ArgumentNormalization ==
    extracted =>
        \A i \in 1..Len(toolCalls) :
            /\ toolCalls[i].Arguments # <<>>
            /\ toolCalls[i].Arguments = TrimSpace(toolCalls[i].Arguments)
            /\ IsJSON(toolCalls[i].Arguments)

\* C12: every ToolCall that ExtractToolInvocations returns has a non-empty
\* id and the type function when the JSON gives none, and no two calls of
\* one response have the same id.
C12_CallIds ==
    extracted =>
        /\ \A i \in 1..Len(toolCalls) :
              toolCalls[i].ID # <<>> /\ toolCalls[i].Type # <<>>
        /\ \A i, j \in 1..Len(toolCalls) :
              i # j => toolCalls[i].ID # toolCalls[j].ID

\* Whether the text sub stands in the text.
Contains(text, sub) ==
    \E k \in 0..(Len(text) - Len(sub)) : SubSeq(text, k + 1, k + Len(sub)) = sub

\* Whether the text ends with suf.
EndsWith(text, suf) ==
    Len(suf) <= Len(text) /\ SubSeq(text, Len(text) - Len(suf) + 1, Len(text)) = suf

\* Tool emulation is active for the request: tool support is on, tool_choice
\* is not "none" and a tool has the type function.
EmulationActive ==
    /\ cfgToolSupport
    /\ reqToolChoice # ChoiceString("none")
    /\ \E i \in 1..Len(reqTools) : reqTools[i].Type = "function"

\* The messages the translator makes as many as the request has, or one more.
LengthKept == Len(processed) - Len(reqMessages) \in {0, 1}

\* The message of the result at the position of the i-th of the request.
Output(i) == processed[i + Len(processed) - Len(reqMessages)]

\* The messages that history rewriting turns into text.
Rewritten(m) == m.Role = "tool" \/ (m.Role = "assistant" /\ m.ToolCalls # <<>>)

\* Whether the message carries the tool prompt of the request.
HasPrompt(m) == Contains(ParseContent(m), GenerateToolPrompt(reqTools, reqToolChoice))

\* C13: when tool emulation is active, every role=tool message of the
\* request is, at its position, a role=user message whose body is a marker,
\* the message's tool call id and then the original content, and no role=tool
\* message is left.
C13_ToolResultRewriting ==
    (translated /\ EmulationActive) =>
        /\ LengthKept
        /\ \A j \in 1..Len(processed) : processed[j].Role # "tool"
        /\ \A i \in 1..Len(reqMessages) :
              reqMessages[i].Role = "tool" =>
                  /\ Output(i).Role = "user"
                  /\ Output(i).Content.kind = "string"
                  /\ Len(Output(i).Content.text) > Len(ParseContent(reqMessages[i]))
                  /\ EndsWith(Output(i).Content.text, ParseContent(reqMessages[i]))
                  /\ Contains(Output(i).Content.text, reqMessages[i].ToolCallID)

\* C14: when tool emulation is active, every role=assistant message with
\* tool_calls is, at its position, a role=assistant message without
\* structured tool_calls whose text names each call's function, arguments
\* and id.
C14_AssistantCallRewriting ==
    (translated /\ EmulationActive) =>
        /\ LengthKept
        /\ \A i \in 1..Len(reqMessages) :
              (reqMessages[i].Role = "assistant" /\ reqMessages[i].ToolCalls # <<>>) =>
                  /\ Output(i).Role = "assistant"
                  /\ Output(i).ToolCalls = <<>>
                  /\ \A c \in 1..Len(reqMessages[i].ToolCalls) :
                        LET call == reqMessages[i].ToolCalls[c]
                            body == ParseContent(Output(i))
                        IN  /\ Contains(body, call.Name)
                            /\ Contains(body, call.Arguments)
                            /\ Contains(body, call.ID)

\* C15: when tool emulation is active, exactly one message of the result
\* carries the tool prompt: the first system message, with the prompt after
\* its text, or, if the request has no system message, a new system message
\* at index 0; every other message that history rewriting does not touch is
\* as it was, in its order, and the result has as many messages as the
\* request, or one more.
C15_PromptPlacement ==
    (translated /\ EmulationActive) =>
        LET systems == {i \in 1..Len(reqMessages) : reqMessages[i].Role = "system"}
            prompt == GenerateToolPrompt(reqTools, reqToolChoice)
        IN  /\ LengthKept
            /\ Cardinality({j \in 1..Len(processed) : HasPrompt(processed[j])}) = 1
            /\ \A i \in 1..Len(reqMessages) :
                  (~Rewritten(reqMessages[i]) /\ (systems = {} \/ i # Least(systems))) =>
                      Output(i) = reqMessages[i]
            /\ IF systems # {}
               THEN /\ Len(processed) = Len(reqMessages)
                    /\ processed[Least(systems)].Role = "system"
                    /\ ParseContent(processed[Least(systems)])
                          = ParseContent(reqMessages[Least(systems)]) \o prompt
               ELSE /\ Len(processed) = Len(reqMessages) + 1
                    /\ processed[1].Role = "system"
                    /\ EndsWith(ParseContent(processed[1]), prompt)

\* C16: ProcessMessagesWithTools returns the messages as they are if and only
\* if tool support is off, or there is no tool, or tool_choice is "none", or
\* no tool has the type function; in every other case a message of the result
\* carries the tool prompt.
C16_Activation ==
    translated =>
        /\ (processed = reqMessages) <=> ~EmulationActive
        /\ EmulationActive => \E j \in 1..Len(processed) : HasPrompt(processed[j])

\* C17: after initBuiltinMappings, a step of the registry removes no key of
\* it, and every built-in mapping is in the registry with the field values
\* initBuiltinMappings wrote, whatever lists updateDynamicMappings is given.
C17_RegistryStability ==
    [][regLast # "none" =>
          /\ DOMAIN modelMappings \subseteq DOMAIN modelMappings'
          /\ \A id \in DOMAIN builtins :
                id \in DOMAIN modelMappings' /\ modelMappings'[id] = builtins[id]]_vars

\* A second updateDynamicMappings was given a built-in key and an id that
\* differs in case only from a key the first one added.
C17_Witness ==
    /\ regLast = "update"
    /\ fetches = 2
    /\ fetched = { << "GLM", "-5" >>, << "GLM", "-6" >> }
    /\ << "glm", "-6" >> \in DOMAIN modelMappings

\* C18: no two mappings of the registry have display names that are equal
\* but for the case of their letters.
C18_DisplayNameUnique ==
    \A a, b \in DOMAIN modelMappings :
        a # b => ~EqualFold(modelMappings[a].DisplayName, modelMappings[b].DisplayName)

\* The ids GetAvailableModels is to return for a registry: its keys, and the
\* three suffixed ids of every key without a suffix.
ExposedIds(mappings) ==
    DOMAIN mappings
    \cup { id \o modelSuffixes[k] :
              id \in {x \in DOMAIN mappings : isBaseSuffixModel(x)},
              k \in 1..Len(modelSuffixes) }

\* C19: the ids GetAvailableModels returns are the keys of the registry and
\* the three suffixed ids of every key without a suffix, so the same set on
\* every call for one registry.
C19_ExposedList ==
    regLast = "list" =>
        {available[i] : i \in 1..Len(available)} = ExposedIds(modelMappings)

\* C20: GetModelMapping leaves the registry as it is; for a name whose base
\* name is a key it returns the mapping of the base name with each feature
\* flag on if the mapping or the suffix turns it on, and the other fields
\* as they are; for a name that is neither such a name nor a key it reports
\* not found.
C20_ModelResolution ==
    [][regLast' = "resolve" =>
          LET name == resolved'[1].name
              result == resolved'[1].result
              parsed == ParseModelName(name)
          IN  /\ modelMappings' = modelMappings
              /\ parsed.baseModel \in DOMAIN modelMappings =>
                    LET mapping == modelMappings[parsed.baseModel]
                    IN  /\ result.ok
                        /\ result.mapping.EnableThinking
                              = (mapping.EnableThinking \/ parsed.enableThinking)
                        /\ result.mapping.WebSearch
                              = (mapping.WebSearch \/ parsed.enableSearch)
                        /\ result.mapping.AutoWebSearch
                              = (mapping.AutoWebSearch \/ parsed.enableSearch)
                        /\ [result.mapping EXCEPT !.EnableThinking = FALSE,
                                                  !.WebSearch = FALSE,
                                                  !.AutoWebSearch = FALSE]
                              = [mapping EXCEPT !.EnableThinking = FALSE,
                                                !.WebSearch = FALSE,
                                                !.AutoWebSearch = FALSE]
              /\ (parsed.baseModel \notin DOMAIN modelMappings
                  /\ name \notin DOMAIN modelMappings) => ~result.ok]_vars

\* GetModelMapping resolved glm-6-search: the mapping of glm-6 has thinking
\* on and web search off, the suffix asks for web search only.
C20_Witness ==
    /\ regLast = "resolve"
    /\ resolved[1].name = << "glm", "-6", "-search" >>
    /\ resolved[1].result.ok
    /\ modelMappings[<< "glm", "-6" >>].EnableThinking
    /\ ~modelMappings[<< "glm", "-6" >>].WebSearch
    /\ resolved[1].result.mapping.EnableThinking
    /\ resolved[1].result.mapping.WebSearch

\* Whether the cut falls between two code points of the text: the code
\* points of s1 + s2 are those of s1 and then those of s2, as they are for
\* any two valid UTF-8 strings.
CutAtBoundary == Runes(countText) = Runes(S1) \o Runes(S2)

\* CountTokens of the empty text is 0 and of any other text 1 at least.
CountBounds ==
    /\ countText = <<>> => counted[1].whole = 0
    /\ countText # <<>> => counted[1].whole >= 1
    /\ S1 # <<>> => counted[1].left >= 1
    /\ S2 # <<>> => counted[1].right >= 1

\* CountTokens(s1 + s2) is CountTokens(s1) + CountTokens(s2) give or take 1.
CountAdditive ==
    LET diff == counted[1].whole - (counted[1].left + counted[1].right)
    IN  diff \in {-1, 0, 1}

\* C21 as stated: CountTokens of the empty string is 0, of a non-empty
\* string 1 at least, and for all strings s1 and s2 CountTokens(s1 + s2) is
\* within 1 of CountTokens(s1) + CountTokens(s2).
C21_TokenCounterLaws ==
    counted # <<>> => (CountBounds /\ CountAdditive)

\* C21 as amended: CountTokens of the empty string is 0, of a non-empty
\* string 1 at least, and CountTokens(s1 + s2) is within 1 of
\* CountTokens(s1) + CountTokens(s2) for all s1 and s2 made of whole code
\* points (s1 does not end inside an encoding that s2 completes).
C21_TokenCounterLawsWholeRunes ==
    counted # <<>> => (CountBounds /\ (CutAtBoundary => CountAdditive))

\* A text with a code point of several bytes was counted, cut between two
\* code points into two parts that are not empty, and the count of the text
\* is one less than the sum of the counts of the parts.
C21_Witness ==
    /\ counted # <<>>
    /\ CutAtBoundary
    /\ S1 # <<>> /\ S2 # <<>>
    /\ Len(Runes(countText)) < Len(countText)
    /\ RuneError \notin Range(Runes(countText))
    /\ counted[1].whole = counted[1].left + counted[1].right - 1

\* The places of the chunks of a kind in the emitted stream.
ChunksOf(kinds) == {i \in 1..Len(emitted) : emitted[i].kind \in kinds}

\* A response was streamed to its end.
StreamEnded == phase = "done" /\ emitted # <<>>

\* Every reasoning, content and tool_calls chunk comes after a role chunk.
RoleFirst ==
    \A i \in ChunksOf({"reasoning", "content", "tool_calls"}) :
        \E j \in ChunksOf({"role"}) : j < i

\* C22 as stated: whatever the upstream sends, the emitted stream has exactly
\* one role chunk, and it comes before every reasoning, content and
\* tool_calls chunk.
C22_RoleChunk ==
    /\ RoleFirst
    /\ StreamEnded => Cardinality(ChunksOf({"role"})) = 1

\* C22 as amended: the emitted stream has at most one role chunk, exactly
\* one if the upstream sent a delta that is not empty and none if it sent
\* none, and it comes before every reasoning, content and tool_calls chunk.
C22_RoleChunkOnDelta ==
    /\ RoleFirst
    /\ Cardinality(ChunksOf({"role"})) <= 1
    /\ (phase # "done" \/ emitted # <<>>) =>
          (Cardinality(ChunksOf({"role"})) = 1 <=> sawDelta)

\* A response with thinking, content and a call was streamed to its end.
C22_Witness ==
    /\ StreamEnded
    /\ ChunksOf({"role"}) = {1}
    /\ ChunksOf({"reasoning"}) # {}
    /\ ChunksOf({"content"}) # {}
    /\ ChunksOf({"tool_calls"}) # {}

\* The answer the engine accumulated has a tool_calls object in a fence.
FencedAnswer ==
    \E v \in { <<>>, << "hi" >> } : answerBuffer = Wrap(v, "fence", Payload)

\* C23: a streamed response that reached done ends with its one terminal
\* chunk, whose finish_reason is stop, length or tool_calls, and then the
\* one line data: [DONE]; and when the answer has a fenced tool_calls JSON,
\* no content chunk carries that JSON, the tool_calls chunks are one block,
\* and the finish_reason is tool_calls.
C23_Termination ==
    StreamEnded =>
        LET n == Len(emitted)
            calls == ChunksOf({"tool_calls"})
        IN  /\ ChunksOf({"finish"}) = {n - 1}
            /\ ChunksOf({"[DONE]"}) = {n}
            /\ emitted[n - 1].reason \in {"stop", "length", "tool_calls"}
            /\ FencedAnswer =>
                  /\ \A i \in ChunksOf({"content"}) :
                        /\ "tool_calls" \notin Range(emitted[i].text)
                        /\ Fence \notin Range(emitted[i].text)
                  /\ calls # {}
                  /\ \A i, j \in calls : \A k \in i..j : k \in calls
                  /\ emitted[n - 1].reason = "tool_calls"

\* The magic-byte table: the bytes at an offset that make a PNG, a JPEG, a
\* GIF, a BMP, an MP4 (ftyp) and a WebM, and the two that make a WebP.
Signatures ==
    { << [at |-> 0, bytes |-> << 137, 80, 78, 71 >>] >>,
      << [at |-> 0, bytes |-> << 255, 216, 255 >>] >>,
      << [at |-> 0, bytes |-> << 71, 73, 70, 56 >>] >>,
      << [at |-> 0, bytes |-> << 82, 73, 70, 70 >>],
         [at |-> 8, bytes |-> << 87, 69, 66, 80 >>] >>,
      << [at |-> 0, bytes |-> << 66, 77 >>] >>,
      << [at |-> 4, bytes |-> << 102, 116, 121, 112 >>] >>,
      << [at |-> 0, bytes |-> << 26, 69, 223, 163 >>] >> }

\* Whether the leading bytes of the payload match a signature of the table.
MatchesSignature(data) ==
    \E sig \in Signatures :
        \A k \in 1..Len(sig) :
            /\ sig[k].at + Len(sig[k].bytes) <= Len(data)
            /\ SubSeq(data, sig[k].at + 1, sig[k].at + Len(sig[k].bytes)) = sig[k].bytes

\* C24: UploadMedia returns an error and POSTs nothing to the file endpoint
\* for every payload it obtained, from a data: URI or from an http(s) URL,
\* whose leading bytes match no signature of the magic-byte table.
C24_MagicBytes ==
    (/\ upLast = "media"
     /\ ~isUnsupportedMediaURL(mediaURL)
     /\ mediaURL.fetchOK
     /\ ~MatchesSignature(mediaURL.payload)) =>
        (uploadResult[1].err # NoErr /\ posted = <<>>)

\* Whether UploadMedia returns a file for the URL.
Succeeds(u, mediaType) ==
    UploadMedia(u, mediaType).err = NoErr /\ UploadMedia(u, mediaType).file # NoFile

\* The files of the URLs of the list whose upload succeeds, in its order.
FilesOf(urls, mediaType) ==
    LET Test(u) == Succeeds(u, mediaType)
        ok == SelectSeq(urls, Test)
    IN  [i \in 1..Len(ok) |-> UploadMedia(ok[i], mediaType).file]

\* The URLs of the list that UploadMedia POSTs to the file endpoint.
PostsOf(urls, mediaType) ==
    LET Test(u) == UploadMedia(u, mediaType).posts # <<>>
    IN  SelectSeq(urls, Test)

\* C25: UploadMediaFiles returns no error; its lists are the files of the
\* image URLs and of the video URLs whose upload succeeds, in the order of
\* the URLs; and every URL is tried, whatever became of the URLs before it.
C25_SoftSkip ==
    upLast = "batch" =>
        /\ uploadResult[1].err = NoErr
        /\ uploadResult[1].images = FilesOf(imageURLs, "image")
        /\ uploadResult[1].videos = FilesOf(videoURLs, "video")
        /\ posted = PostsOf(imageURLs, "image") \o PostsOf(videoURLs, "video")

\* A batch whose first image fails or is skipped, and whose second image and
\* whose video are uploaded.
C25_Witness ==
    /\ upLast = "batch"
    /\ Len(imageURLs) = 2 /\ Len(videoURLs) = 1
    /\ ~Succeeds(imageURLs[1], "image")
    /\ Len(uploadResult[1].images) = 1
    /\ uploadResult[1].images[1].Source = imageURLs[2]
    /\ Len(uploadResult[1].videos) = 1

\* ------------------------------------------------------------ C26
\* The sum of the use-counts of the records of the map m.
RECURSIVE SumUse(_, _)
SumUse(m, keys) ==
    IF keys = {} THEN 0
    ELSE LET t == CHOOSE x \in keys : TRUE
         IN  m[t].UseCount + SumUse(m, keys \ {t})

TotalUse(m) == SumUse(m, DOMAIN m)

\* C26: a GetToken call on a non-empty ring returns ring[cursor mod |ring|],
\* moves the cursor by exactly 1, raises the use-count of the record of the
\* returned credential by exactly 1 and changes nothing else of the pool: the
\* ring, the key set of the map, every other record and every other field
\* stay.  The call is one step under tm.mu, so each successful call adds
\* exactly 1 to the total of the use-counts.
C26_DispatchStep ==
    [][ (last' = "get" /\ Len(validTokens) > 0) =>
           /\ ret' = validTokens[(currentIndex % Len(validTokens)) + 1]
           /\ currentIndex' = currentIndex + 1
           /\ validTokens' = validTokens
           /\ ret' \in DOMAIN tokens
           /\ tokens' = [tokens EXCEPT ![ret'].UseCount = tokens[ret'].UseCount + 1]
           /\ TotalUse(tokens') = TotalUse(tokens) + 1
           /\ UNCHANGED << file, invalidFile, started, pending, wpc, vpc, vTodo,
                           invalidCount, passes >> ]_vars

\* A call whose cursor had passed the end of the ring has just returned.
C26_Witness ==
    /\ last = "get"
    /\ Len(validTokens) >= 1
    /\ currentIndex > Len(validTokens)
    /\ ret = validTokens[((currentIndex - 1) % Len(validTokens)) + 1]
    /\ ret \in DOMAIN tokens
    /\ tokens[ret].UseCount >= 1

\* ------------------------------------------------------------ C27
\* C27 as stated: only a reparse (loadTokens) adds keys to or removes keys
\* from the credential map; every other step, those of the validator
\* included, leaves the key set of the map unchanged.
C27_SingleWriter ==
    [][ last' # "load" => DOMAIN tokens' = DOMAIN tokens ]_vars

\* C27 amended: only a reparse adds keys to the map; a key is removed by a
\* reparse or by removeInvalidTokens at the end of a pass, which deletes
\* exactly the records marked invalid and leaves the other records as they
\* are; every other step of the validator (the loop of validateAllTokens,
\* validateToken, rebuildValidTokens) leaves the key set unchanged.
C27_SingleWriterButQuarantine ==
    [][ /\ last' # "load" => DOMAIN tokens' \subseteq DOMAIN tokens
        /\ last' \notin {"load", "remove"} => DOMAIN tokens' = DOMAIN tokens
        /\ last' = "remove" =>
              /\ DOMAIN tokens' = {t \in DOMAIN tokens : tokens[t].Valid}
              /\ \A t \in DOMAIN tokens' : tokens'[t] = tokens[t] ]_vars

\* removeInvalidTokens has just deleted the dead records of a pass whose
\* snapshot held a credential a reparse dropped meanwhile, and a live record
\* is left.
C27_Witness ==
    /\ last = "remove"
    /\ invalidFile # <<>>
    /\ invalidFile[Len(invalidFile)] # {}
    /\ invalidFile[Len(invalidFile)] \cap DOMAIN tokens = {}
    /\ DOMAIN tokens # {}
    /\ (probedDead \cup probedAlive) \ (DOMAIN tokens \cup invalidFile[Len(invalidFile)]) # {}

\* ------------------------------------------------------------ C28
\* The loop of validateAllTokens is over: the ring is about to be rebuilt.
LoopDone == vpc = "rebuild"

\* The credentials the pass has probed so far.
Probed == probedDead \cup probedAlive

\* The bookkeeping of a pass: no credential is probed twice, the loop goes on
\* while a credential of the snapshot is left, whatever the earlier probes
\* returned, and each round probes exactly one credential of the snapshot.
EachProbedOnce ==
    /\ [](probedDead \cap probedAlive = {})
    /\ []((vpc = "probe") => vTodo # {})
    /\ [](LoopDone => vTodo = {})
    /\ [][ vpc = "probe" =>
             /\ vTodo' \cup Probed' = vTodo \cup Probed
             /\ vTodo' \subseteq vTodo
             /\ (vTodo' # vTodo => Cardinality(vTodo \ vTodo') = 1) ]_vars

\* C28 as stated: a pass probes each credential of its snapshot exactly once,
\* a dead probe does not stop the probes of the others, and when the loop is
\* over every probed credential still in the map has a record with valid =
\* true if and only if its probe returned 200, last-checked being that of the
\* pass.
C28_ValidationPass ==
    /\ EachProbedOnce
    /\ [](LoopDone => \A t \in Probed \cap DOMAIN tokens :
              /\ tokens[t].Valid <=> t \in probedAlive
              /\ tokens[t].LastChecked = passes)

\* C28 amended: the same, for the probed credentials whose record has stayed
\* in the map since the probe.  The probe of a credential that has a record
\* writes the verdict and the time of the pass into it; when the loop is over
\* every record that carries the time of the pass is valid if and only if the
\* probe returned 200.  (A record a reparse created after the probe carries
\* the zero time.)
C28_ValidationPassSameRecord ==
    /\ EachProbedOnce
    /\ [][ vpc = "probe" =>
             \A t \in (vTodo \ vTodo') \cap DOMAIN tokens :
                /\ t \in DOMAIN tokens'
                /\ tokens'[t].Valid <=> t \in probedAlive'
                /\ tokens'[t].LastChecked = passes ]_vars
    /\ [](LoopDone => \A t \in Probed \cap DOMAIN tokens :
              tokens[t].LastChecked = passes => (tokens[t].Valid <=> t \in probedAlive))

\* The loop of a pass over three credentials is over: a dead probe came before
\* a live one, and both records carry their verdicts.
C28_Witness ==
    /\ LoopDone
    /\ Cardinality(Probed) = 3
    /\ \E d \in probedDead \cap DOMAIN tokens :
          ~tokens[d].Valid /\ tokens[d].LastChecked = passes
    /\ \E a \in probedAlive \cap DOMAIN tokens :
          tokens[a].Valid /\ tokens[a].LastChecked = passes

\* ------------------------------------------------------------ C29
\* C29: whatever the interleaving of GetToken, RecordCall, reloads and
\* validation passes, no step lowers totalCalls, successCalls or
\* multimodalCount, and no step lowers the use-count of a credential that is
\* in tokens.txt before and after the step, nor drops its record.
C29_MonotonicCounters ==
    [][ /\ totalCalls' >= totalCalls
        /\ successCalls' >= successCalls
        /\ multimodalCount' >= multimodalCount
        /\ \A t \in (Range(FileTokens(file)) \cap Range(FileTokens(file'))) \cap DOMAIN tokens :
              /\ t \in DOMAIN tokens'
              /\ tokens'[t].UseCount >= tokens[t].UseCount ]_vars

\* Calls of both kinds are recorded and a credential that was dispatched has
\* kept its use-count through a reload and a validation pass.
C29_Witness ==
    /\ totalCalls = MaxCalls
    /\ successCalls = 1
    /\ multimodalCount = 1
    /\ last = "load"
    /\ passes >= 1
    /\ \E t \in Range(FileTokens(file)) \cap DOMAIN tokens :
          tokens[t].UseCount >= 1 /\ tokens[t].LastChecked >= 1

\* ------------------------------------------------------------ C30
\* C30: once Stop has raised the cancellation signal no background task
\* starts another iteration: the validator starts no pass, the watcher starts
\* no reload, the model fetcher and the version updater fetch nothing.  (The
\* iteration a task is in when the signal is raised may end.)
C30_Cancellation ==
    [][ stopped =>
           /\ passes' = passes
           /\ ~(wpc = "wait" /\ wpc' = "sleep")
           /\ fetches' = fetches
           /\ versionFetches' = versionFetches ]_vars

\* C31: a text that writes calls in several forms gives the calls of the
\* first form that has any, in the order fenced tool_calls block, inline
\* tool_calls object, lone name/arguments object, natural-language call;
\* a text with none of them gives no calls.
FormCall(k, now) ==
    CASE k = "fence" -> ToolCall(<<>>, << "function" >>, << "f" >>, <<>>)
      [] k = "inline" -> ToolCall(<<>>, << "function" >>, << "a" >>, <<>>)
      [] k = "single" -> ToolCall(generateCallID(now), << "function" >>, << "x" >>, << "{", "}" >>)
      [] OTHER -> ToolCall(generateCallID(now), << "function" >>, << "hi" >>, << "{", "}" >>)

FirstForm(ks) ==
    IF "fence" \in Range(ks) THEN "fence"
    ELSE IF "inline" \in Range(ks) THEN "inline"
    ELSE IF "single" \in Range(ks) THEN "single"
    ELSE "natural"

C31_ExtractionPriority ==
    extracted =>
        /\ Len(response) <= ScanLimit
        /\ wrapping = <<>> => toolCalls = <<>>
        /\ wrapping # <<>> => \E now \in Clock : toolCalls = << FormCall(FirstForm(wrapping), now) >>

C31_Witness ==
    /\ extracted
    /\ Len(wrapping) = 4
    /\ wrapping[1] = "natural"
    /\ wrapping[4] = "fence"
    /\ toolCalls = << FormCall("fence", "1") >>

\* Whether the text mentions tool_calls.
MentionsToolCalls(s) == "tool_calls" \in Range(s)

\* One round of a left-to-right scan that drops every balanced-brace object
\* whose text mentions tool_calls and keeps every other symbol.
ScopeStep(text, st, i) ==
    IF i < st.i THEN st
    ELSE IF text[i] # "{" THEN [i |-> i + 1, result |-> Append(st.result, text[i])]
    ELSE LET m == MatchBrace(text, i)
         IN  IF m.braceCount = 0 /\ MentionsToolCalls(SubSeq(text, i, m.j - 1))
             THEN [i |-> m.j, result |-> st.result]
             ELSE [i |-> i + 1, result |-> Append(st.result, text[i])]

WithoutMentioningObjects(text) ==
    LET Step(st, i) == ScopeStep(text, st, i)
    IN  FoldRange(Step, [i |-> 1, result |-> <<>>], 1, Len(text)).result

\* C32: RemoveToolJSONContent removes the json fences whose parsed content
\* has tool_calls and every inline balanced-brace object whose text contains
\* tool_calls, and nothing else: what it returns is the text without those,
\* trimmed.
C32_CleaningScope ==
    stripped => cleaned = TrimSpace(WithoutMentioningObjects(removeToolFences(response)))

\* The texts that may follow the first ScanLimit symbols of a response.
OtherTails == { <<>>, << "hi" >>, << "}", "]", "}" >>, << Fence >> }

\* The index of the last symbol of the tool_calls object in the response.
ObjectEnd == Len(visible) + (IF wrapping = "fence" THEN 4 ELSE 1) + Len(Payload)

\* The calls depend only on the first ScanLimit symbols: any text with the
\* same first ScanLimit symbols gives the calls the response gave.
SamePrefixSameCalls ==
    extracted =>
        \A tail \in OtherTails :
            Len(response) >= ScanLimit =>
                \E now \in Clock :
                    toolCalls = ExtractToolInvocations(SubSeq(response, 1, ScanLimit) \o tail, now)

\* A tool_calls object that reaches beyond the scan limit is not extracted.
BeyondLimitNotExtracted == (extracted /\ ObjectEnd > ScanLimit) => toolCalls = <<>>

\* C33: ExtractToolInvocations depends only on the first ScanLimit symbols
\* of the text: texts that agree on them give the same calls, and a
\* tool-call object that starts at or reaches beyond the limit is not
\* extracted.
C33_ScanLimit == SamePrefixSameCalls /\ BeyondLimitNotExtracted

\* The arguments object of the response: it starts 25 symbols into the
\* tool_calls object and ends 4 symbols before the end of the object.
ArgumentsText ==
    SubSeq(response, Len(visible) + 26, Len(response) - Len(AfterObject) - 4)

\* Every search for a matching brace reads forward and stops within the text.
ScanAdvances ==
    \A i \in 1..Len(response) :
        response[i] = "{" =>
            LET m == MatchBrace(response, i)
            IN  /\ i < m.j
                /\ m.j <= Len(response) + 1
                /\ m.braceCount = 0 => response[m.j - 1] = "}"

\* C34: a tool_calls object whose string values hold braces, escaped quotes
\* and escaped backslashes is matched as one object: extraction returns its
\* call with the arguments as written, cleaning removes the object and
\* nothing after it, and every scan for a matching brace moves forward and
\* ends within the text, also from a brace that is never closed.
C34_StringAwareBraces ==
    /\ ScanAdvances
    /\ extracted =>
            toolCalls = << ToolCall(<<>>, << "function" >>, << "f" >>, ArgumentsText) >>
    /\ stripped => cleaned = TrimSpace(visible \o << " " >> \o AfterObject)

C34_Witness ==
    /\ extracted
    /\ stripped
    /\ visible = << "{", Q >>
    /\ Len(toolCalls) = 1
    /\ toolCalls[1].Arguments = << "{", Q, "x", Q, ":", Q, "}", BS, Q, Q, "}" >>
    /\ cleaned = << "{", Q, " ", " ", "hi" >>

\* C40: RemoveToolJSONContent removes something only if
\* ExtractToolInvocations returns a call for the same text: when the
\* extraction returns no calls, the cleaned content is the trimmed text.
C40_StripAgreesWithExtract ==
    (extracted /\ stripped /\ toolCalls = <<>>) => cleaned = TrimSpace(response)

\* C37: after any reload the ring holds each credential at most once, also
\* when tokens.txt lists a credential on several lines, so that no
\* credential has more than one turn in a round of the ring.
C37_NoDuplicateRingEntries ==
    last = "load" =>
        \A i, j \in 1..Len(validTokens) : validTokens[i] = validTokens[j] => i = j

\* The token counts of the snapshot GetStats takes under the read lock.
ValidTokenCount == Len(validTokens)

TotalTokenCount == Cardinality(DOMAIN tokens)

\* Every credential of the ring has a record, and GetToken returns one that has.
RingEntriesHaveRecords ==
    /\ Range(validTokens) \subseteq DOMAIN tokens
    /\ (last = "get" /\ ret # "") => ret \in DOMAIN tokens

\* C36: in every reachable state every credential of the ring is a key of
\* the credential map, GetToken returns a credential that has a record, and
\* the valid-token count of GetStats is at most its total-token count.
C36_RingEntriesHaveRecords ==
    /\ RingEntriesHaveRecords
    /\ ValidTokenCount <= TotalTokenCount

\* C38: every snapshot GetStats returns, whatever RecordCall calls run at
\* the same time, has success calls <= total calls and multimodal calls <=
\* total calls, so that the success rate is at most 100.
C38_ConsistentSnapshot ==
    statPc = "done" =>
        /\ snapshot.SuccessCalls <= snapshot.TotalCalls
        /\ snapshot.MultimodalCount <= snapshot.TotalCalls
        /\ snapshot.TotalCalls > 0 => snapshot.SuccessCalls * 100 <= 100 * snapshot.TotalCalls

\* The times of requestTimes that are less than a minute old.
WithinWindow(times, now) == SelectSeq(times, LAMBDA t : now - t < Window)

\* C35: GetRPM returns the number of recorded requests whose time is less
\* than a minute old (a time exactly a minute old is not within the
\* window), and leaves exactly those in requestTimes; no other step
\* removes a time, and no GetRPM changes the total-request counter.
C35_SlidingWindow ==
    [][ /\ rpmLast' = "get" =>
            /\ rpm' = Len(WithinWindow(requestTimes, clock))
            /\ requestTimes' = WithinWindow(requestTimes, clock)
            /\ TotalRequests' = TotalRequests
        /\ rpmLast' # "get" =>
            /\ Len(requestTimes') >= Len(requestTimes)
            /\ SubSeq(requestTimes', 1, Len(requestTimes)) = requestTimes ]_vars

C35_Witness ==
    /\ rpmLast = "get"
    /\ TotalRequests = 3
    /\ rpm = 1
    /\ requestTimes = << 2 >>
    /\ clock = 3

\* What the caller's list reads as is what it read as before the call.
CallerListAsBefore == ReadList(heap, callerList) = reqMessages

\* The returned list reads as the transform of the caller's list.
ReturnedIsTransform ==
    translated =>
        /\ ReadList(heap, returnedList) = processed
        /\ processed = ProcessMessagesWithTools(reqMessages, reqTools, reqToolChoice, cfgToolSupport)

\* C39: ProcessMessagesWithTools does not modify its input: the call writes
\* to no array and no map that existed before it, so the caller's list has
\* the length, the roles and the contents it had, the text parts of a
\* list-valued system content included; the injected prompt and the
\* rewritten roles are in the returned list only.
C39_InputNotModified ==
    /\ [](CallerListAsBefore /\ ReturnedIsTransform)
    /\ [][ /\ callerList' = callerList
           /\ SubSeq(heap', 1, Len(heap)) = heap ]_vars

C39_Witness ==
    /\ translated
    /\ Len(reqMessages) = 2
    /\ reqMessages[1].Role = "tool"
    /\ reqMessages[2] = Message("system", ListContent(<< TextPart(<< "be brief" >>), ImagePart >>), <<>>, <<>>)
    /\ processed[1].Role = "user"
    /\ processed[2].Content.parts[1].text # << "be brief" >>
    /\ returnedList.ref # callerList.ref

====
